---- MODULE Spec2Model ----
(***************************************************************************)
(* Nessi network simulator: the discrete event scheduler (scheduler.py),   *)
(* the ARQ data link protocols (nessi/arq.py) and the PDU classes          *)
(* (nessi/pdu.py).                                                         *)
(*                                                                         *)
(* Part 1 models class Scheduler.  An event is the tuple the scheduler     *)
(* stores, (time, priority, action, arguments), here <<time, priority>>:   *)
(* all events carry the same action and arguments, so that the tuple       *)
(* comparison of bisect.insort_right and list.remove is decided by time    *)
(* and priority, and events entered twice with the same fields are equal.  *)
(* A callback is code the scheduler does not own: between the invocation   *)
(* of a callback and its return it may call enter, enterabs, cancel, halt, *)
(* terminate and step.                                                     *)
(***************************************************************************)
EXTENDS Integers, Sequences, FiniteSets, Bags, TLC

\* ------------------------------------------------------------------ bounds
MaxTime == 2
MaxEnter == 3

\* the default priority of enter and enterabs
DefaultPrio == 10

\* 10e300, the default horizon (Scheduler.__init__, run, reinitialize)
NoHorizon == 1000

Times == 0..MaxTime
Prios == {DefaultPrio - 1, DefaultPrio}
Events == Times \X Prios
Delays == {0 - 1, 0, 1}
Untils == {MaxTime - 1, NoHorizon}
NoEvent == <<>>

VARIABLES
    queue,       \* Scheduler.queue: sorted list of events
    simtime,     \* Scheduler.simtime
    singleStep,  \* Scheduler.singleStep
    running,     \* Scheduler.running
    maxtime,     \* Scheduler.maxtime
    pc,          \* where the control is: "idle", "loop", "cb", "crashed"
    cur,         \* the event whose callback is being executed
    handles,     \* event handles returned by enter/enterabs so far
    fired,       \* the last two callbacks invoked since the clock was
                 \* reset, each with the clock value at its invocation
    due,         \* bag of the events callers have entered and not (yet)
                 \* seen fire, cancelled or deleted by terminate
    lastCancelled, \* the pending event removed by the latest cancel
    result,      \* what the latest enter/enterabs/cancel call did
    nEnter,      \* number of enter/enterabs calls made
    \* ---- Part 2, two data link entities joined by a point-to-point link
    cfg,         \* the configuration: ARQ class, numSNBits, window size,
                 \* the sequence number the run starts from
    ent,         \* entity -> the attributes of its data link object and
                 \* XOFF of its device
    phy,         \* entity -> the frame its phy layer is transmitting
    link,        \* entity -> the frames under way to its peer, in order
    timers,      \* entity -> the pending _timeout events, oldest first
    up,          \* entity -> what its upper layer sent and was handed
    err,         \* the exception that ended the run, "" if none
    faults,      \* number of timeouts fired, of frames lost and of runs
                 \* terminated
    \* ---- Part 3, two PDU objects of one class made by formatFactory
    format,      \* the format description the class was made from
    pdu1,        \* _data of the first object, the sentinel octet included
    pdu2,        \* _data of the second object
    assigned,    \* the latest assignment to a field of pdu1: the field, the
                 \* value, and what every field read before it
    raised       \* the exception an accessor raised, "" if none

schedVars == <<queue, simtime, singleStep, running, maxtime, pc, cur,
               handles, fired, due, lastCancelled, result, nEnter>>
arqVars == <<cfg, ent, phy, link, timers, up, err, faults>>
pduVars == <<format, pdu1, pdu2, assigned, raised>>
vars == <<schedVars, arqVars, pduVars>>

\* ------------------------------------------------------- sequence helpers
SeqToBag(s) == [x \in {s[i] : i \in DOMAIN s} |->
                  Cardinality({i \in DOMAIN s : s[i] = x})]
BagAdd(b, x) == b (+) SetToBag({x})
RemoveAt(s, k) == SubSeq(s, 1, k - 1) \o SubSeq(s, k + 1, Len(s))
InsertAt(s, k, x) == SubSeq(s, 1, k) \o <<x>> \o SubSeq(s, k + 1, Len(s))

LastTwo(s) == IF Len(s) > 2 THEN Tail(s) ELSE s

\* Python's tuple comparison on events
EventLess(a, b) ==
    \/ a[1] < b[1]
    \/ a[1] = b[1] /\ a[2] < b[2]
EventLeq(a, b) == a = b \/ EventLess(a, b)

\* mutant: the event is appended instead of inserted in order
InsortRightAppends(q, ev) == Append(q, ev)

\* bisect.insort_right(self.queue, event): after the entries <= event
InsortRight(q, ev) ==
    InsertAt(q, Cardinality({i \in DOMAIN q : EventLeq(q[i], ev)}), ev)

\* list.remove(event): the first entry equal to event
FirstIndex(q, ev) ==
    CHOOSE i \in DOMAIN q : q[i] = ev /\ \A j \in 1..(i - 1) : q[j] # ev
ListRemove(q, ev) == RemoveAt(q, FirstIndex(q, ev))
InQueue(q, ev) == \E i \in DOMAIN q : q[i] = ev

\* ------------------------------------------------------------ Scheduler
\* mutant: events in the past are accepted
EnterabsAcceptsPast(time) == time <= maxtime

\* enterabs: "if self.simtime <= time <= self.maxtime"
EnterabsAccepts(time) == simtime <= time /\ time <= maxtime

EnterabsEffect(time, prio) ==
    LET event == <<time, prio>> IN
    /\ nEnter < MaxEnter
    /\ nEnter' = nEnter + 1
    /\ handles' = handles \cup {event}
    /\ IF EnterabsAccepts(time)
         THEN /\ queue' = InsortRight(queue, event)
              /\ due' = BagAdd(due, event)
              /\ result' = "queued"
         ELSE /\ UNCHANGED <<queue, due>>
              /\ result' = IF time < simtime THEN "past, not queued"
                                              ELSE "not queued"
    /\ UNCHANGED <<simtime, singleStep, running, maxtime, pc, cur, fired,
                   lastCancelled>>

Caller == pc \in {"idle", "cb"}

Enterabs ==
    /\ Caller
    /\ \E time \in Times, prio \in Prios : EnterabsEffect(time, prio)
    /\ UNCHANGED <<arqVars, pduVars>>

\* enter: "time = self.simtime + delay"
Enter ==
    /\ Caller
    /\ \E delay \in Delays, prio \in Prios :
          /\ simtime + delay <= MaxTime
          /\ EnterabsEffect(simtime + delay, prio)
    /\ UNCHANGED <<arqVars, pduVars>>

\* mutant: every entry equal to the event is removed
CancelRemovesAll(q, ev) == SelectSeq(q, LAMBDA x : x # ev)

\* cancel: "self.queue.remove(event)"
CancelRemoves(q, ev) == ListRemove(q, ev)

\* cancel: a missing event whose time is within the horizon raises
\* RuntimeError, one beyond the horizon is ignored.
Cancel ==
    /\ Caller
    /\ \E event \in handles :
          IF InQueue(queue, event)
            THEN /\ queue' = CancelRemoves(queue, event)
                 /\ due' = due (-) SetToBag({event})
                 /\ lastCancelled' = event
                 /\ result' = "removed"
                 /\ UNCHANGED pc
            ELSE /\ UNCHANGED <<queue, due, lastCancelled>>
                 /\ IF event[1] <= maxtime
                      THEN result' = "RuntimeError" /\ pc' = "crashed"
                      ELSE result' = "ignored" /\ UNCHANGED pc
    /\ UNCHANGED <<simtime, singleStep, running, maxtime, cur, handles,
                   fired, nEnter>>
    /\ UNCHANGED <<arqVars, pduVars>>

\* the body of reinitialize under "if not self.running"
ReinitializeEffect ==
    /\ queue' = <<>>
    /\ due' = EmptyBag
    /\ simtime' = 0
    /\ maxtime' = NoHorizon
    /\ running' = FALSE
    /\ singleStep' = FALSE
    /\ fired' = <<>>

Reinitialize ==
    /\ pc = "idle"
    /\ IF ~running
         THEN ReinitializeEffect
         ELSE UNCHANGED <<queue, due, simtime, maxtime, running, singleStep,
                          fired>>
    /\ UNCHANGED <<pc, cur, handles, lastCancelled, result, nEnter>>
    /\ UNCHANGED <<arqVars, pduVars>>

Run ==
    /\ pc = "idle"
    /\ \E until \in Untils : maxtime' = until
    /\ simtime' = 0
    /\ running' = TRUE
    /\ fired' = <<>>
    /\ pc' = "loop"
    /\ UNCHANGED <<queue, due, singleStep, cur, handles, lastCancelled, result, nEnter>>
    /\ UNCHANGED <<arqVars, pduVars>>

Cont ==
    /\ pc = "idle"
    /\ IF singleStep
         THEN singleStep' = FALSE /\ running' = TRUE /\ pc' = "loop"
         ELSE IF running = FALSE
                THEN running' = TRUE /\ pc' = "loop"
                     /\ UNCHANGED singleStep
                ELSE UNCHANGED <<singleStep, running, pc>>
    /\ UNCHANGED <<queue, due, simtime, maxtime, cur, handles, fired, lastCancelled, result,
                   nEnter>>
    /\ UNCHANGED <<arqVars, pduVars>>

Halt ==
    /\ Caller
    /\ running' = FALSE
    /\ UNCHANGED <<queue, due, simtime, singleStep, maxtime, pc, cur,
                   handles, fired, lastCancelled, result, nEnter>>
    /\ UNCHANGED <<arqVars, pduVars>>

Terminate ==
    /\ Caller
    /\ IF running /\ ~singleStep
         THEN /\ queue' = <<>>
              /\ due' = EmptyBag
              /\ maxtime' = 0
              /\ UNCHANGED <<simtime, running, singleStep, fired>>
         ELSE ReinitializeEffect
    /\ UNCHANGED <<pc, cur, handles, lastCancelled, result, nEnter>>
    /\ UNCHANGED <<arqVars, pduVars>>

Step ==
    /\ Caller
    /\ IF running
         THEN IF singleStep
                THEN pc = "idle" /\ pc' = "loop" /\ UNCHANGED singleStep
                ELSE singleStep' = TRUE /\ UNCHANGED pc
         ELSE UNCHANGED <<pc, singleStep>>
    /\ UNCHANGED <<queue, due, simtime, running, maxtime, cur, handles,
                   fired, lastCancelled, result, nEnter>>
    /\ UNCHANGED <<arqVars, pduVars>>

\* _delayfunc via "if now < time: self._delayfunc(time - now)"
Advance(now, time) == IF now < time THEN now + (time - now) ELSE now

\* mutant: the loop goes on while events are pending, halted or not
LoopTestIgnoresHalt == queue # <<>>

\* _eventloop, "while q and self.running"
LoopTest == queue # <<>> /\ running

\* _eventloop, one test of "while q and self.running" that succeeds: pop
\* the head, advance the clock and invoke the callback.
LoopPop ==
    /\ pc = "loop"
    /\ LoopTest
    /\ cur' = Head(queue)
    /\ queue' = Tail(queue)
    /\ due' = due (-) SetToBag({Head(queue)})
    /\ simtime' = Advance(simtime, Head(queue)[1])
    /\ fired' = LastTwo(Append(fired, [ev |-> Head(queue), at |-> simtime']))
    /\ pc' = "cb"
    /\ UNCHANGED <<singleStep, running, maxtime, handles, lastCancelled, result, nEnter>>
    /\ UNCHANGED <<arqVars, pduVars>>

\* _eventloop, the loop test fails: halted, terminated or finished
LoopExit ==
    /\ pc = "loop"
    /\ ~LoopTest
    /\ pc' = "idle"
    /\ cur' = NoEvent
    /\ IF queue # <<>>
         THEN /\ running' = FALSE
              /\ UNCHANGED <<queue, due, simtime, maxtime, singleStep, fired>>
         ELSE ReinitializeEffect
    /\ UNCHANGED <<handles, lastCancelled, result, nEnter>>
    /\ UNCHANGED <<arqVars, pduVars>>

\* the callback returns: "if self.singleStep and q: return self.simtime"
CallbackReturn ==
    /\ pc = "cb"
    /\ pc' = IF singleStep /\ queue # <<>> THEN "idle" ELSE "loop"
    /\ cur' = NoEvent
    /\ UNCHANGED <<queue, due, simtime, singleStep, running, maxtime,
                   handles, fired, lastCancelled, result, nEnter>>
    /\ UNCHANGED <<arqVars, pduVars>>

\* the scheduler before the first call
SchedIdle ==
    /\ queue = <<>>
    /\ simtime = 0
    /\ singleStep = FALSE
    /\ running = FALSE
    /\ maxtime = NoHorizon
    /\ pc = "idle"
    /\ cur = NoEvent
    /\ handles = {}
    /\ fired = <<>>
    /\ due = EmptyBag
    /\ lastCancelled = NoEvent
    /\ result = ""
    /\ nEnter = 0

\* no entity is installed
ArqIdle ==
    /\ cfg = <<>>
    /\ ent = <<>>
    /\ phy = <<>>
    /\ link = <<>>
    /\ timers = <<>>
    /\ up = <<>>
    /\ err = ""
    /\ faults = <<>>

\* no PDU class has been made
PduIdle ==
    /\ format = <<>>
    /\ pdu1 = <<>>
    /\ pdu2 = <<>>
    /\ assigned = <<>>
    /\ raised = ""

SchedInit == SchedIdle /\ ArqIdle /\ PduIdle

SchedNext ==
    \/ Enterabs \/ Enter \/ Cancel \/ Reinitialize \/ Run \/ Cont \/ Halt
    \/ Terminate \/ Step \/ LoopPop \/ LoopExit \/ CallbackReturn

SchedSpec == SchedInit /\ [][SchedNext]_vars

(***************************************************************************)
(* Part 2: two hosts joined by a point-to-point link, each with a          *)
(* FullDuplexPhy and a data link entity of one of the classes of arq.py.   *)
(* The clock is abstracted: what is kept of the scheduler's queue is the   *)
(* order of the events of one kind.  The _timeout events of an entity all  *)
(* have the same delay (retransmissionTimeout), so they fire in the order  *)
(* in which they were scheduled; the frames of an entity reach the peer in *)
(* the order in which they were handed to the phy layer (a FIFO link).     *)
(* FullDuplexPhy.send schedules completeTransmission and sendStatus for    *)
(* the same instant: they form one step, PhyDone.                          *)
(***************************************************************************)
MaxSend == 3
MaxTimeouts == 1
MaxLoss == 1

E == {1, 2}
Peer(e) == 3 - e
NoFrame == <<>>

\* a frame built by self._newFrame(): SN, RN, SREJ (SelectiveRepeatDL
\* only), data; the FCS is right unless the medium corrupts the frame
MakeFrame(sn, rn, srej, data) ==
    [SN |-> sn, RN |-> rn, SREJ |-> srej, data |-> data]

\* the k-th bitstream of the upper layer: a unique one
\* (TrafficSource._uniqueBitstream), or one of length 0 where the
\* configuration of the run says so
Payload(k) == IF k = cfg.empty THEN <<>> ELSE <<k>>
Payloads(n) == [k \in 1..n |-> Payload(k)]

\* What a call into entity e works on: the entity's attributes (s), the
\* frames it hands to phy.send (out), the pending _timeout events (tm),
\* the bitstreams passed to upperLayer.receive (deliv) and to
\* upperLayer.sendStatus (compl), and the exception raised, if any.
Ctx(e) ==
    [s |-> ent[e], out |-> <<>>, tm |-> timers[e], deliv |-> <<>>,
     compl |-> <<>>, err |-> ""]

\* SCHEDULE(self.retransmissionTimeout, self._timeout, (sn,))
Schedule(c, sn) == [c EXCEPT !.tm = Append(@, sn)]

LastIndex(q, x) ==
    CHOOSE i \in DOMAIN q : q[i] = x /\ \A j \in (i + 1)..Len(q) : q[j] # x

\* CANCEL(timer) of the handle held for sn, which names the _timeout event
\* scheduled last for sn: Scheduler.cancel raises RuntimeError when that
\* event is not pending
CancelTimer(c, sn) ==
    IF \E i \in DOMAIN c.tm : c.tm[i] = sn
      THEN [c EXCEPT !.tm = RemoveAt(@, LastIndex(@, sn))]
      ELSE [c EXCEPT !.err = "RuntimeError"]

\* ------------------------------------------------------------ StopAndGoDL
SWNew ==
    [XOFF |-> FALSE, VS |-> 0, VR |-> 0, sendBuffer |-> NoFrame,
     timer |-> FALSE, packetRetransmissions |-> 0, crcErrors |-> 0,
     sequenceErrors |-> 0]

\* StopAndGoDL.send
SWSendFrame(c, bitstream) ==
    IF ~(c.s.XOFF = FALSE /\ c.s.sendBuffer = NoFrame)
      THEN [c EXCEPT !.err = "AssertionError"]
      ELSE LET frame == MakeFrame(c.s.VS, c.s.VR, 0, bitstream) IN
           [Schedule(c, 0) EXCEPT
               !.s.XOFF = TRUE,
               !.s.VS = (c.s.VS + 1) % 2,
               !.s.sendBuffer = frame,
               !.s.timer = TRUE,
               !.out = Append(@, frame)]

\* StopAndGoDL._sendACK
SWSendACK(c) ==
    [c EXCEPT !.out = Append(@, MakeFrame(c.s.VS, c.s.VR, 0, <<>>))]

\* StopAndGoDL._retransmit that leaves a pending timer pending
SWRetransmitNoCancel(c) ==
    [Schedule(c, 0) EXCEPT
        !.s.timer = TRUE,
        !.s.packetRetransmissions = @ + 1,
        !.out = Append(@, c.s.sendBuffer)]
\* StopAndGoDL._retransmit
SWRetransmit(c) ==
    LET c1 == IF c.s.timer THEN CancelTimer(c, 0) ELSE c IN
    IF c1.err # "" THEN c1
    ELSE [Schedule(c1, 0) EXCEPT
             !.s.timer = TRUE,
             !.s.packetRetransmissions = @ + 1,
             !.out = Append(@, c.s.sendBuffer)]

\* StopAndGoDL._checkAck that leaves the upper layer blocked
SWCheckAckKeepsXOFF(c, frame) ==
    IF c.s.sendBuffer = NoFrame THEN c
    ELSE IF frame.RN = c.s.VS
      THEN LET c1 == CancelTimer(c, 0) IN
           [c1 EXCEPT !.s.sendBuffer = NoFrame,
                      !.s.timer = FALSE,
                      !.compl = Append(@, c.s.sendBuffer.data)]
      ELSE SWRetransmit(c)
\* StopAndGoDL._checkAck
SWCheckAck(c, frame) ==
    IF c.s.sendBuffer = NoFrame THEN c
    ELSE IF frame.RN = c.s.VS
      THEN LET c1 == IF c.s.timer THEN CancelTimer(c, 0)
                     ELSE [c EXCEPT !.err = "TypeError"] IN
           IF c1.err # "" THEN c1
           ELSE [c1 EXCEPT !.s.sendBuffer = NoFrame,
                           !.s.timer = FALSE,
                           !.s.XOFF = FALSE,
                           !.compl = Append(@, c.s.sendBuffer.data)]
      ELSE SWRetransmit(c)

\* StopAndGoDL._checkData that accepts data whatever its SN
SWCheckDataAnySN(c, frame) ==
    IF Len(frame.data) = 0 THEN c
    ELSE LET c1 == SWSendACK([c EXCEPT !.s.VR = (@ + 1) % 2]) IN
         [c1 EXCEPT !.deliv = Append(@, frame.data)]
\* StopAndGoDL._checkData
SWCheckData(c, frame) ==
    IF Len(frame.data) = 0 THEN c
    ELSE IF frame.SN = c.s.VR
      THEN LET c1 == SWSendACK([c EXCEPT !.s.VR = (@ + 1) % 2]) IN
           [c1 EXCEPT !.deliv = Append(@, frame.data)]
      ELSE SWSendACK([c EXCEPT !.s.sequenceErrors = @ + 1])

\* StopAndGoDL.receive of a frame whose FCS is right
SWReceiveFrame(c, frame) ==
    LET c1 == SWCheckAck(c, frame) IN
    IF c1.err # "" THEN c1 ELSE SWCheckData(c1, frame)

\* StopAndGoDL.receive of a frame whose FCS is wrong, answered by an
\* acknowledgement
SWReceiveBadAcks(c) == SWSendACK([c EXCEPT !.s.crcErrors = @ + 1])
\* StopAndGoDL.receive of a frame whose FCS is wrong
SWReceiveBad(c) == [c EXCEPT !.s.crcErrors = @ + 1]

\* StopAndGoDL._timeout
SWTimeoutFired(c) == SWRetransmit([c EXCEPT !.s.timer = FALSE])

\* -------------------------------------------------------------- GoBackNDL
FIRSTTR == 3
RETR == 2
ACK == 1
SREJ == 0
SN_MOD == 65536
MaxWin == 2

\* a Python dictionary as a function on its keys
EmptyDict == [k \in {} |-> <<>>]
DictPut(d, k, v) ==
    [x \in (DOMAIN d) \cup {k} |-> IF x = k THEN v ELSE d[x]]
DictDel(d, k) == [x \in (DOMAIN d) \ {k} |-> d[x]]

\* the attributes of a GoBackNDL or SelectiveRepeatDL after __init__,
\* install and setWindowSize; start is 0, or the number the entities have
\* come to after start acknowledged frames
GBNNew(start) ==
    [XOFF |-> FALSE, VR |-> start, SNmin |-> start, SNmax |-> start,
     winSize |-> cfg.winSize,
     sendBuffer |-> EmptyDict, retransmissionTimer |-> {},
     transmitting |-> FALSE, transmitQueue |-> <<>>,
     receiveBuffer |-> EmptyDict,
     packetRetransmissions |-> 0, crcErrors |-> 0, sequenceErrors |-> 0]

\* the setter of a BitField of numSNBits bits takes the value
FieldFits(value) == value < 2 ^ cfg.numSNBits

\* GoBackNDL._trySendingFrame
GBNTrySendingFrame(c) ==
    IF c.s.transmitting \/ c.s.transmitQueue = <<>> THEN c
    ELSE LET type == Head(c.s.transmitQueue)[1]
             sn == Head(c.s.transmitQueue)[2]
             c1 == [c EXCEPT !.s.transmitQueue = Tail(@)]
         IN IF type = ACK
              THEN IF ~(FieldFits(c.s.SNmax) /\ FieldFits(sn))
                     THEN [c1 EXCEPT !.err = "ValueError"]
                     ELSE [c1 EXCEPT
                              !.s.transmitting = TRUE,
                              !.out = Append(@, MakeFrame(c.s.SNmax, sn, 0,
                                                          <<>>))]
            ELSE IF sn \notin DOMAIN c.s.sendBuffer
              THEN [c1 EXCEPT !.err = "KeyError"]
            ELSE IF ~(FieldFits(sn) /\ FieldFits(c.s.VR))
              THEN [c1 EXCEPT !.err = "ValueError"]
            ELSE [Schedule(c1, sn) EXCEPT
                     !.s.retransmissionTimer = @ \cup {sn},
                     !.s.packetRetransmissions =
                         IF type = RETR THEN @ + 1 ELSE @,
                     !.s.transmitting = TRUE,
                     !.out = Append(@, MakeFrame(sn, c.s.VR, 0,
                                                 c.s.sendBuffer[sn]))]

\* SelectiveRepeatDL._trySendingFrame that sets the timer of a frame
\* without cancelling the one it has
SRTrySendingFrameNoCancel(c) ==
    IF c.s.transmitting \/ c.s.transmitQueue = <<>> THEN c
    ELSE LET type == Head(c.s.transmitQueue)[1]
             sn == Head(c.s.transmitQueue)[2]
             c1 == [c EXCEPT !.s.transmitQueue = Tail(@)]
         IN IF type = ACK \/ type = SREJ
              THEN [c1 EXCEPT
                       !.s.transmitting = TRUE,
                       !.out = Append(@,
                           MakeFrame(c.s.SNmax, sn,
                                     IF type = SREJ THEN 1 ELSE 0, <<>>))]
            ELSE IF sn \notin DOMAIN c.s.sendBuffer
              THEN [c1 EXCEPT !.err = "KeyError"]
            ELSE [Schedule(c1, sn) EXCEPT
                     !.s.retransmissionTimer = @ \cup {sn},
                     !.s.packetRetransmissions =
                         IF type = RETR THEN @ + 1 ELSE @,
                     !.s.transmitting = TRUE,
                     !.out = Append(@, MakeFrame(sn, c.s.VR, 0,
                                                 c.s.sendBuffer[sn]))]
\* SelectiveRepeatDL._trySendingFrame
SRTrySendingFrame(c) ==
    IF c.s.transmitting \/ c.s.transmitQueue = <<>> THEN c
    ELSE LET type == Head(c.s.transmitQueue)[1]
             sn == Head(c.s.transmitQueue)[2]
             c1 == [c EXCEPT !.s.transmitQueue = Tail(@)]
             c2 == IF sn \in c.s.retransmissionTimer
                     THEN CancelTimer(c1, sn) ELSE c1
         IN IF type = ACK \/ type = SREJ
              THEN IF ~(FieldFits(c.s.SNmax) /\ FieldFits(sn))
                     THEN [c1 EXCEPT !.err = "ValueError"]
                     ELSE [c1 EXCEPT
                              !.s.transmitting = TRUE,
                              !.out = Append(@,
                                  MakeFrame(c.s.SNmax, sn,
                                            IF type = SREJ THEN 1 ELSE 0,
                                            <<>>))]
            ELSE IF sn \notin DOMAIN c.s.sendBuffer
              THEN [c1 EXCEPT !.err = "KeyError"]
            ELSE IF ~(FieldFits(sn) /\ FieldFits(c.s.VR))
              THEN [c1 EXCEPT !.err = "ValueError"]
            ELSE IF c2.err # "" THEN c2
            ELSE [Schedule(c2, sn) EXCEPT
                     !.s.retransmissionTimer = @ \cup {sn},
                     !.s.packetRetransmissions =
                         IF type = RETR THEN @ + 1 ELSE @,
                     !.s.transmitting = TRUE,
                     !.out = Append(@, MakeFrame(sn, c.s.VR, 0,
                                                 c.s.sendBuffer[sn]))]

\* self._trySendingFrame()
TrySendingFrame(c) ==
    IF cfg.arq = "SR" THEN SRTrySendingFrame(c) ELSE GBNTrySendingFrame(c)

\* the window is full: the test of GoBackNDL.send
WindowFull(c, snmax) == (snmax - c.s.SNmin) % SN_MOD >= c.s.winSize

\* GoBackNDL.send
GBNSendFrame(c, bitstream) ==
    IF c.s.XOFF # FALSE THEN [c EXCEPT !.err = "AssertionError"]
    ELSE LET snmax == (c.s.SNmax + 1) % SN_MOD IN
         TrySendingFrame(
           [c EXCEPT
              !.s.sendBuffer = DictPut(@, c.s.SNmax, bitstream),
              !.s.transmitQueue = InsortRight(@, <<FIRSTTR, c.s.SNmax>>),
              !.s.SNmax = snmax,
              !.s.XOFF = IF WindowFull(c, snmax) THEN TRUE ELSE @])

\* GoBackNDL.sendStatus
GBNSendStatus(c) == TrySendingFrame([c EXCEPT !.s.transmitting = FALSE])

\* the loop of GoBackNDL._checkAck: release the frames before RN
RECURSIVE GBNRelease(_, _)
GBNRelease(c, RN) ==
    IF c.err # "" \/ c.s.SNmin = RN THEN c
    ELSE IF InQueue(c.s.transmitQueue, <<FIRSTTR, c.s.SNmin>>)
      THEN [c EXCEPT !.err = "AssertionError"]
    ELSE IF c.s.SNmin \notin DOMAIN c.s.sendBuffer
      THEN [c EXCEPT !.err = "KeyError"]
    ELSE LET sn == c.s.SNmin
             c1 == IF sn \in c.s.retransmissionTimer
                     THEN CancelTimer(c, sn) ELSE c
             snmin == (sn + 1) % SN_MOD
         IN GBNRelease(
              [c1 EXCEPT
                 !.s.transmitQueue =
                     IF InQueue(@, <<RETR, sn>>)
                       THEN ListRemove(@, <<RETR, sn>>) ELSE @,
                 !.s.sendBuffer = DictDel(@, sn),
                 !.s.retransmissionTimer = @ \ {sn},
                 !.s.SNmin = snmin,
                 !.s.XOFF = IF (c.s.SNmax - snmin) % SN_MOD < c.s.winSize
                              THEN FALSE ELSE @,
                 !.compl = Append(@, c.s.sendBuffer[sn])], RN)

\* GoBackNDL._checkAck that releases one frame for each acknowledgement
GBNCheckAckOne(c, frame) ==
    IF c.s.SNmin = c.s.SNmax THEN c
    ELSE IF (frame.RN - c.s.SNmin) % SN_MOD
              > (c.s.SNmax - c.s.SNmin) % SN_MOD THEN c
    ELSE IF frame.RN = c.s.SNmin THEN c
    ELSE GBNRelease(c, (c.s.SNmin + 1) % SN_MOD)
\* GoBackNDL._checkAck
GBNCheckAck(c, frame) ==
    IF c.s.SNmin = c.s.SNmax THEN c
    ELSE IF (frame.RN - c.s.SNmin) % SN_MOD
              > (c.s.SNmax - c.s.SNmin) % SN_MOD THEN c
    ELSE GBNRelease(c, frame.RN)

\* GoBackNDL._sendACK
GBNSendACK(c) ==
    TrySendingFrame([c EXCEPT
                       !.s.transmitQueue = InsortRight(@, <<ACK, c.s.VR>>)])

\* GoBackNDL._checkData that accepts data whatever its SN
GBNCheckDataAnySN(c, frame) ==
    IF Len(frame.data) = 0 THEN c
    ELSE LET c1 == GBNSendACK([c EXCEPT !.s.VR = (@ + 1) % SN_MOD]) IN
         IF c1.err # "" THEN c1
         ELSE [c1 EXCEPT !.deliv = Append(@, frame.data)]
\* GoBackNDL._checkData
GBNCheckData(c, frame) ==
    IF Len(frame.data) = 0 THEN c
    ELSE IF frame.SN = c.s.VR
      THEN LET c1 == GBNSendACK([c EXCEPT !.s.VR = (@ + 1) % SN_MOD]) IN
           IF c1.err # "" THEN c1
           ELSE [c1 EXCEPT !.deliv = Append(@, frame.data)]
      ELSE GBNSendACK([c EXCEPT !.s.sequenceErrors = @ + 1])

\* GoBackNDL.receive of a frame whose FCS is right
GBNReceiveFrame(c, frame) ==
    LET c1 == GBNCheckAck(c, frame) IN
    IF c1.err # "" THEN c1 ELSE GBNCheckData(c1, frame)

\* GoBackNDL.receive of a frame whose FCS is wrong
GBNReceiveBad(c) == [c EXCEPT !.s.crcErrors = @ + 1]

RECURSIVE CancelAll(_, _)
\* for timer in self._retransmissionTimer.values(): CANCEL(timer)
CancelAll(c, sns) ==
    IF c.err # "" \/ sns = {} THEN c
    ELSE LET sn == CHOOSE x \in sns : TRUE IN
         CancelAll(CancelTimer(c, sn), sns \ {sn})

RECURSIVE InsortAll(_, _, _)
\* for sn in keys: bisect.insort(queue, (type, sn))
InsortAll(q, type, keys) ==
    IF keys = {} THEN q
    ELSE LET sn == CHOOSE x \in keys : TRUE IN
         InsortAll(InsortRight(q, <<type, sn>>), type, keys \ {sn})

\* GoBackNDL._retransmit that forgets the timer handles without cancelling
\* the events
GBNRetransmitKeepsEvents(c, sn) ==
    TrySendingFrame(
      [c EXCEPT
         !.s.retransmissionTimer = {},
         !.s.transmitQueue =
             InsortAll(SelectSeq(c.s.transmitQueue,
                                 LAMBDA el : el[1] = ACK),
                       RETR, DOMAIN c.s.sendBuffer)])
\* GoBackNDL._retransmit
GBNRetransmit(c, sn) ==
    LET c1 == CancelAll(c, c.s.retransmissionTimer) IN
    IF c1.err # "" THEN c1
    ELSE TrySendingFrame(
           [c1 EXCEPT
              !.s.retransmissionTimer = {},
              !.s.transmitQueue =
                  InsortAll(SelectSeq(c.s.transmitQueue,
                                      LAMBDA el : el[1] = ACK),
                            RETR, DOMAIN c.s.sendBuffer)])

\* ----------------------------------------------------- SelectiveRepeatDL
\* SelectiveRepeatDL._sendACK
SRSendACK(c, type, rn) ==
    TrySendingFrame([c EXCEPT
                       !.s.transmitQueue = InsortRight(@, <<type, rn>>)])

\* SelectiveRepeatDL._retransmit that resends the whole window
SRRetransmitWindow(c, sn) == GBNRetransmit(c, sn)

\* SelectiveRepeatDL._retransmit
SRRetransmit(c, sn) ==
    TrySendingFrame([c EXCEPT
                       !.s.transmitQueue = InsortRight(@, <<RETR, sn>>)])

RECURSIVE SRSlide(_)
\* the loop of SelectiveRepeatDL._checkAck: move SNmin up to the first
\* frame that is still held
SRSlide(c) ==
    IF c.err # "" \/ c.s.SNmin = c.s.SNmax
       \/ c.s.SNmin \in DOMAIN c.s.sendBuffer THEN c
    ELSE IF InQueue(c.s.transmitQueue, <<FIRSTTR, c.s.SNmin>>)
      THEN [c EXCEPT !.err = "AssertionError"]
    ELSE LET snmin == (c.s.SNmin + 1) % SN_MOD IN
         SRSlide([c EXCEPT
                    !.s.SNmin = snmin,
                    !.s.XOFF = IF (c.s.SNmax - snmin) % SN_MOD < c.s.winSize
                                 THEN FALSE ELSE @])

\* SelectiveRepeatDL._checkAck
SRCheckAck(c, frame) ==
    LET RN == frame.RN
        out == (c.s.SNmax - c.s.SNmin) % SN_MOD
    IN
    IF c.s.SNmin = c.s.SNmax THEN c
    ELSE IF frame.SREJ # 0 /\ (RN - c.s.SNmin) % SN_MOD < out
      THEN SRRetransmit(c, RN)
    ELSE IF (RN - c.s.SNmin) % SN_MOD > out THEN c
    ELSE IF RN \notin DOMAIN c.s.sendBuffer \/ Len(c.s.sendBuffer[RN]) = 0
      THEN [c EXCEPT !.s.sendBuffer = DictDel(@, RN)]
    ELSE LET c1 == IF RN \in c.s.retransmissionTimer
                     THEN CancelTimer(c, RN) ELSE c
             c2 == SRSlide(
                     [c1 EXCEPT
                        !.s.sendBuffer = DictDel(@, RN),
                        !.s.transmitQueue =
                            IF InQueue(@, <<RETR, RN>>)
                              THEN ListRemove(@, <<RETR, RN>>) ELSE @,
                        !.s.retransmissionTimer = @ \ {RN}])
         IN IF c1.err # "" THEN c1
            ELSE IF c2.err # "" THEN c2
            ELSE [c2 EXCEPT !.compl = Append(@, c.s.sendBuffer[RN])]

RECURSIVE SRDeliver(_)
\* the loop of SelectiveRepeatDL._checkData: pass the buffered run that
\* starts at VR to the upper layer
SRDeliver(c) ==
    IF c.s.VR \notin DOMAIN c.s.receiveBuffer THEN c
    ELSE SRDeliver([c EXCEPT
                      !.deliv = Append(@, c.s.receiveBuffer[c.s.VR]),
                      !.s.receiveBuffer = DictDel(@, c.s.VR),
                      !.s.VR = (c.s.VR + 1) % SN_MOD])

\* a reception window that takes every frame
InReceiveWindowAll(c, sn) == TRUE

\* a reception window of the next expected frame alone
InReceiveWindowNextOnly(c, sn) == sn = c.s.VR

\* the frame is inside the reception window
InReceiveWindow(c, sn) == (sn - c.s.VR) % SN_MOD < c.s.winSize

\* SelectiveRepeatDL._checkData
SRCheckData(c, frame) ==
    IF Len(frame.data) = 0 THEN c
    ELSE IF InReceiveWindow(c, frame.SN)
      THEN SRSendACK(
             SRDeliver([c EXCEPT !.s.receiveBuffer =
                                     DictPut(@, frame.SN, frame.data)]),
             ACK, frame.SN)
    ELSE IF (c.s.VR - frame.SN) % SN_MOD < c.s.winSize + 1
      THEN SRSendACK(c, ACK, frame.SN)
    ELSE SRSendACK([c EXCEPT !.s.sequenceErrors = @ + 1], SREJ, c.s.VR)

\* SelectiveRepeatDL.receive of a frame whose FCS is right
SRReceiveFrame(c, frame) ==
    LET c1 == SRCheckAck(c, frame) IN
    IF c1.err # "" THEN c1 ELSE SRCheckData(c1, frame)

\* SelectiveRepeatDL.receive of a frame whose FCS is wrong
SRReceiveBad(c) ==
    SRSendACK([c EXCEPT !.s.crcErrors = @ + 1], SREJ, c.s.VR)

\* self._retransmit(sn)
Retransmit(c, sn) ==
    IF cfg.arq = "SR" THEN SRRetransmit(c, sn) ELSE GBNRetransmit(c, sn)

\* GoBackNDL._timeout, inherited by SelectiveRepeatDL
GBNTimeoutFired(c, sn) ==
    IF sn \notin c.s.retransmissionTimer THEN [c EXCEPT !.err = "KeyError"]
    ELSE Retransmit([c EXCEPT !.s.retransmissionTimer = @ \ {sn}], sn)

\* ------------------------------------------------- dispatch on the class
SendFrame(c, bitstream) ==
    IF cfg.arq = "SW" THEN SWSendFrame(c, bitstream)
    ELSE GBNSendFrame(c, bitstream)
ReceiveFrame(c, frame) ==
    CASE cfg.arq = "SW" -> SWReceiveFrame(c, frame)
      [] cfg.arq = "GBN" -> GBNReceiveFrame(c, frame)
      [] cfg.arq = "SR" -> SRReceiveFrame(c, frame)
ReceiveBad(c) ==
    CASE cfg.arq = "SW" -> SWReceiveBad(c)
      [] cfg.arq = "GBN" -> GBNReceiveBad(c)
      [] cfg.arq = "SR" -> SRReceiveBad(c)
TimeoutFired(c, sn) ==
    IF cfg.arq = "SW" THEN SWTimeoutFired(c) ELSE GBNTimeoutFired(c, sn)
SendStatus(c) ==
    IF cfg.arq = "SW" THEN c ELSE GBNSendStatus(c)

\* ----------------------------------------------------------- the actions
\* the state after the call: the frames handed to phy.send join those the
\* phy layer is transmitting
Commit(e, c, sent) ==
    /\ ent' = [ent EXCEPT ![e] = c.s]
    /\ phy' = [phy EXCEPT ![e] = @ \o c.out]
    /\ timers' = [timers EXCEPT ![e] = c.tm]
    /\ up' = [up EXCEPT ![e].nSent = @ + sent,
                        ![e].delivered = @ \o c.deliv,
                        ![e].completed = @ \o c.compl]
    /\ err' = c.err

\* the upper layer calls send with its next bitstream, DLFlooder.generate:
\* only while XOFF is False
Send(e) ==
    /\ err = ""
    /\ e \in cfg.senders
    /\ ent[e].XOFF = FALSE
    /\ up[e].nSent < cfg.quota[e]
    /\ Commit(e, SendFrame(Ctx(e), Payload(up[e].nSent + 1)), 1)
    /\ UNCHANGED <<cfg, link, faults>>
    /\ UNCHANGED <<schedVars, pduVars>>

\* FullDuplexPhy.send, the two events it schedules: the medium takes the
\* frame (completeTransmission) and the entity is told (sendStatus)
PhyDone(e) ==
    /\ err = ""
    /\ phy[e] # <<>>
    /\ LET c == SendStatus(Ctx(e)) IN
         /\ ent' = [ent EXCEPT ![e] = c.s]
         /\ phy' = [phy EXCEPT ![e] = Tail(@) \o c.out]
         /\ timers' = [timers EXCEPT ![e] = c.tm]
         /\ err' = c.err
    /\ link' = [link EXCEPT ![e] = Append(@, Head(phy[e]))]
    /\ UNCHANGED <<cfg, up, faults>>
    /\ UNCHANGED <<schedVars, pduVars>>

\* the sequence number of a data frame that does not arrive
LostSN(frame) == IF Len(frame.data) # 0 THEN {frame.SN} ELSE {}

\* the medium delivers the oldest frame under way to e, intact
Receive(e) ==
    /\ err = ""
    /\ link[Peer(e)] # <<>>
    /\ Commit(e, ReceiveFrame(Ctx(e), Head(link[Peer(e)])), 0)
    /\ link' = [link EXCEPT ![Peer(e)] = Tail(@)]
    /\ UNCHANGED <<cfg, faults>>
    /\ UNCHANGED <<schedVars, pduVars>>

\* ErrorPtPLink.completeTransmission with bit errors: the oldest frame
\* under way to e arrives with a wrong FCS
ReceiveCorrupt(e) ==
    /\ err = ""
    /\ link[Peer(e)] # <<>>
    /\ faults.lost < cfg.maxLoss
    /\ Commit(e, ReceiveBad(Ctx(e)), 0)
    /\ link' = [link EXCEPT ![Peer(e)] = Tail(@)]
    /\ faults' = [faults EXCEPT !.lost = @ + 1,
                                !.sns = @ \cup LostSN(Head(link[Peer(e)]))]
    /\ UNCHANGED cfg
    /\ UNCHANGED <<schedVars, pduVars>>

\* the oldest frame under way to e never arrives
Lose(e) ==
    /\ err = ""
    /\ link[Peer(e)] # <<>>
    /\ faults.lost < cfg.maxLoss
    /\ cfg.dataOnly => Len(Head(link[Peer(e)]).data) # 0
    /\ link' = [link EXCEPT ![Peer(e)] = Tail(@)]
    /\ faults' = [faults EXCEPT !.lost = @ + 1,
                                !.sns = @ \cup LostSN(Head(link[Peer(e)]))]
    /\ UNCHANGED <<cfg, ent, phy, timers, up, err>>
    /\ UNCHANGED <<schedVars, pduVars>>

\* nothing is under way: no frame in a phy layer or on the link, and so
\* none in a transmit queue
Drained == \A e \in E : phy[e] = <<>> /\ link[e] = <<>>

\* the scheduler fires the oldest pending _timeout event of e; with
\* cfg.patient retransmissionTimeout is longer than the traffic under way
\* takes
Timeout(e) ==
    /\ err = ""
    /\ timers[e] # <<>>
    /\ IF cfg.patient THEN Drained ELSE faults.timeouts < cfg.maxTimeouts
    /\ Commit(e, TimeoutFired([Ctx(e) EXCEPT !.tm = Tail(@)],
                              Head(timers[e])), 0)
    /\ faults' = [faults EXCEPT !.timeouts = IF cfg.patient THEN @ ELSE @ + 1]
    /\ UNCHANGED <<cfg, link>>
    /\ UNCHANGED <<schedVars, pduVars>>

ArqLosslessNext ==
    \E e \in E : Send(e) \/ PhyDone(e) \/ Receive(e) \/ Timeout(e)

ArqNext ==
    \E e \in E : \/ Send(e) \/ PhyDone(e) \/ Receive(e) \/ Timeout(e)
                 \/ ReceiveCorrupt(e) \/ Lose(e)

\* the scheduler fires every event it holds
ArqFair ==
    \A e \in E : /\ WF_vars(PhyDone(e))
                 /\ WF_vars(Receive(e))
                 /\ WF_vars(Timeout(e))

NoFaults == [timeouts |-> 0, lost |-> 0, sns |-> {}, terminated |-> 0]
NewUpper == [nSent |-> 0, delivered |-> <<>>, completed |-> <<>>]

\* two installed entities built by new, no traffic yet
ArqInit(conf, new) ==
    /\ cfg = conf
    /\ ent = [e \in E |-> new]
    /\ phy = [e \in E |-> <<>>]
    /\ link = [e \in E |-> <<>>]
    /\ timers = [e \in E |-> <<>>]
    /\ up = [e \in E |-> NewUpper]
    /\ err = ""
    /\ faults = NoFaults
    /\ PduIdle

ArqLossNext ==
    \E e \in E : \/ Send(e) \/ PhyDone(e) \/ Receive(e) \/ Timeout(e)
                 \/ Lose(e)

\* the configuration of a run: the class of the two entities, the timeout
\* regime (patient, or at most maxTimeouts timeouts that fire at any time),
\* the number of frames the link may lose or corrupt and whether it loses
\* data frames only, the window size, the number of bits of the sequence
\* numbers and the sequence number the run starts from.  Host 1 is the one
\* with a traffic source and every bitstream has a payload, unless a run
\* sets senders and empty (the number of the bitstream of length 0); quota
\* is the number of bitstreams the upper layer of each host has to send.
Conf(arq, patient, maxLoss, dataOnly, winSize, numSNBits, start) ==
    [arq |-> arq, senders |-> {1}, patient |-> patient, maxLoss |-> maxLoss,
     maxTimeouts |-> MaxTimeouts, dataOnly |-> dataOnly, winSize |-> winSize,
     numSNBits |-> numSNBits, start |-> start, empty |-> 0,
     quota |-> [e \in E |-> MaxSend]]

\* Stop-and-Wait, host 1 sends to host 2, over a link that loses and
\* corrupts frames, with timeouts at any time
SWInit ==
    /\ SchedIdle
    /\ ArqInit(Conf("SW", FALSE, MaxLoss, FALSE, 1, 1, 0), SWNew)
SWSpec == SWInit /\ [][ArqNext]_vars

\* Stop-and-Wait over a link without losses or errors
SWLosslessInit ==
    /\ SchedIdle
    /\ ArqInit(Conf("SW", FALSE, 0, FALSE, 1, 1, 0), SWNew)
SWLosslessSpec == SWLosslessInit /\ [][ArqLosslessNext]_vars /\ ArqFair

\* the sequence numbers the entities start from: 0, and the last numbers
\* before the wraparound
Starts == {0, SN_MOD - 1}

\* Go-Back-N with any window size, the default 0 included, over a link
\* that loses and corrupts frames, with timeouts at any time
GBNInit ==
    /\ SchedIdle
    /\ \E w \in 0..MaxWin, st \in Starts :
         ArqInit(Conf("GBN", FALSE, MaxLoss, FALSE, w, 16, st),
                 GBNNew(st))
GBNSpec == GBNInit /\ [][ArqNext]_vars

\* Go-Back-N over a link that loses one data frame, with a timeout longer
\* than the traffic under way takes
GBNOneLossInit ==
    /\ SchedIdle
    /\ \E w \in 2..MaxWin + 1, st \in Starts :
         ArqInit(Conf("GBN", TRUE, 1, TRUE, w, 16, st),
                 GBNNew(st))
GBNOneLossSpec == GBNOneLossInit /\ [][ArqLossNext]_vars /\ ArqFair

\* Selective-Repeat over a link that loses and corrupts frames, with
\* timeouts at any time
SRInit ==
    /\ SchedIdle
    /\ \E w \in 1..MaxWin, st \in Starts :
         ArqInit(Conf("SR", FALSE, MaxLoss, FALSE, w, 16, st),
                 GBNNew(st))
SRSpec == SRInit /\ [][ArqNext]_vars

\* Selective-Repeat over a link that loses one data frame, with a timeout
\* longer than the traffic under way takes
SROneLossInit ==
    /\ SchedIdle
    /\ \E w \in 2..MaxWin + 1, st \in Starts :
         ArqInit(Conf("SR", TRUE, 1, TRUE, w, 16, st),
                 GBNNew(st))
SROneLossSpec == SROneLossInit /\ [][ArqLossNext]_vars /\ ArqFair

\* Go-Back-N and Selective-Repeat built with 1 and with 16 bits for the
\* sequence numbers, over a link without losses or errors; with 16 bits
\* also from the last number before the wraparound
BitsInit ==
    /\ SchedIdle
    /\ \E a \in {"GBN", "SR"}, w \in 1..MaxWin, b \in {1, 16}, st \in Starts :
         /\ b = 1 => st = 0
         /\ ArqInit(Conf(a, FALSE, 0, FALSE, w, b, st), GBNNew(st))
BitsSpec == BitsInit /\ [][ArqLosslessNext]_vars

\* an upper layer that does not wait for XOFF to become False: it calls
\* send with its next bitstream while the entity is blocked
SendBlocked(e) ==
    /\ err = ""
    /\ e \in cfg.senders
    /\ ent[e].XOFF = TRUE
    /\ up[e].nSent < cfg.quota[e]
    /\ Commit(e, SendFrame(Ctx(e), Payload(up[e].nSent + 1)), 0)
    /\ UNCHANGED <<cfg, link, faults>>
    /\ UNCHANGED <<schedVars, pduVars>>

BlockedNext ==
    \E e \in E : \/ Send(e) \/ SendBlocked(e) \/ PhyDone(e) \/ Receive(e)
                 \/ Timeout(e)

\* each of the three classes over a link without losses or errors, with an
\* upper layer that may call send at any time
BlockedInit ==
    /\ SchedIdle
    /\ \/ ArqInit(Conf("SW", FALSE, 0, FALSE, 1, 1, 0), SWNew)
       \/ \E a \in {"GBN", "SR"}, w \in 1..MaxWin :
             ArqInit(Conf(a, FALSE, 0, FALSE, w, 16, 0), GBNNew(0))
BlockedSpec == BlockedInit /\ [][BlockedNext]_vars

\* ---- traffic in both directions
\* the configuration of a run with a traffic source on both hosts, that of
\* host 2 with one bitstream less to send
Duplex(arq, winSize) ==
    [Conf(arq, FALSE, 0, FALSE, winSize, 16, 0)
        EXCEPT !.senders = E, !.quota = <<MaxSend - 1, MaxSend - 2>>]
\* each of the three classes with traffic in both directions, over a link
\* without losses or errors, with timeouts at any time
DuplexInit ==
    /\ SchedIdle
    /\ \/ ArqInit(Duplex("SW", 1), SWNew)
       \/ \E a \in {"GBN", "SR"} : ArqInit(Duplex(a, MaxWin), GBNNew(0))
DuplexSpec == DuplexInit /\ [][ArqLosslessNext]_vars

\* Selective-Repeat with traffic in both directions, one bitstream of
\* host 1 and of host 2 being of length 0
SRDuplexEmptyInit ==
    /\ SchedIdle
    /\ \E k \in 1..2 :
          ArqInit([Duplex("SR", MaxWin) EXCEPT !.empty = k], GBNNew(0))
SRDuplexEmptySpec == SRDuplexEmptyInit /\ [][ArqLosslessNext]_vars

\* the steps of a run that ends before a retransmission timer is due
ArqPromptNext == \E e \in E : Send(e) \/ PhyDone(e) \/ Receive(e)

\* Stop-and-Wait with traffic in both directions over a link without losses
\* or errors, with a timeout longer than the run
SWDuplexInit ==
    /\ SchedIdle
    /\ ArqInit([Duplex("SW", 1) EXCEPT !.patient = TRUE], SWNew)
SWDuplexSpec == SWDuplexInit /\ [][ArqPromptNext]_vars


\* one payload of a sender is empty: traffic in one direction over a link
\* that loses and corrupts frames, all three classes
EmptyInit ==
    /\ SchedIdle
    /\ \E k \in 1..2 :
          \/ ArqInit([Conf("SW", FALSE, MaxLoss, FALSE, 1, 1, 0)
                         EXCEPT !.empty = k], SWNew)
          \/ \E a \in {"GBN", "SR"} :
                ArqInit([Conf(a, FALSE, MaxLoss, FALSE, MaxWin, 16, 0)
                            EXCEPT !.empty = k], GBNNew(0))
EmptySpec == EmptyInit /\ [][ArqNext]_vars

\* ---- a run that is terminated
\* TERMINATE called by an event of the running simulation, and the
\* reinitialize of the event loop that ends: every pending event is
\* deleted (the transmissions under way, the frames on the link, the
\* _timeout events), the entities are left as they are
TerminateRun ==
    /\ err = ""
    /\ faults.terminated = 0
    /\ \E e \in E : phy[e] # <<>> \/ link[e] # <<>> \/ timers[e] # <<>>
    /\ phy' = [e \in E |-> <<>>]
    /\ link' = [e \in E |-> <<>>]
    /\ timers' = [e \in E |-> <<>>]
    /\ faults' = [faults EXCEPT !.terminated = 1]
    /\ UNCHANGED <<cfg, ent, up, err>>
    /\ UNCHANGED <<schedVars, pduVars>>

TerminatedNext == ArqLosslessNext \/ TerminateRun

\* each of the three classes over a link without losses or errors, in a
\* run that an event may terminate, with the next run on the same entities
TerminatedInit ==
    /\ SchedIdle
    /\ \/ ArqInit(Conf("SW", FALSE, 0, FALSE, 1, 1, 0), SWNew)
       \/ \E a \in {"GBN", "SR"} :
             ArqInit(Conf(a, FALSE, 0, FALSE, MaxWin, 16, 0), GBNNew(0))
TerminatedSpec == TerminatedInit /\ [][TerminatedNext]_vars

(***************************************************************************)
(* Part 3: the PDU classes of nessi/pdu.py.  _data is a sequence of octets *)
(* (numbers 0..255) that ends with the sentinel octet; a field is read and *)
(* written through the property that _propertyFactory makes from the       *)
(* field's type, its length and the two positions formatFactory computed   *)
(* for it.  Positions, slices and indices may be negative and then count   *)
(* from the end, as in Python.  The field types modelled are ByteField,    *)
(* BitField and Int; MACAddr and IPv4Addr are not.                         *)
(***************************************************************************)
MaxAssign == 2

\* "length = None" in a format description
None == 0 - 1
\* "default = None"; a default value v is written <<v>>
NoDefault == <<>>

\* Python's & and | on natural numbers, and x & ~m
RECURSIVE BitAnd(_, _)
BitAnd(a, b) ==
    IF a = 0 \/ b = 0 THEN 0
    ELSE (a % 2) * (b % 2) + 2 * BitAnd(a \div 2, b \div 2)
BitOr(a, b) == a + b - BitAnd(a, b)
BitAndNot(a, m) == a - BitAnd(a, m)

\* Python's s[i], s[a:b], s[:b] and s[a:] on a sequence, indices from 0
Norm(s, i) ==
    IF i < 0 THEN (IF Len(s) + i < 0 THEN 0 ELSE Len(s) + i)
    ELSE IF i > Len(s) THEN Len(s) ELSE i
At(s, i) == s[(IF i < 0 THEN Len(s) + i ELSE i) + 1]
Slice(s, a, b) == SubSeq(s, Norm(s, a) + 1, Norm(s, b))
SliceTo(s, b) == SubSeq(s, 1, Norm(s, b))
SliceFrom(s, a) == SubSeq(s, Norm(s, a) + 1, Len(s))
Zeros(n) == [i \in 1..n |-> 0]

\* what an accessor returns: the value read or the new _data, or the
\* exception raised
Ok(v) == [val |-> v, exc |-> ""]
Raise(e) == [val |-> None, exc |-> e]

\* struct.pack("!q", value): eight octets, most significant first
RECURSIVE OctetOf(_, _)
OctetOf(value, k) == IF k = 0 THEN value % 256 ELSE OctetOf(value \div 256, k - 1)
Pack(value) == [i \in 1..8 |-> OctetOf(value, 8 - i)]

\* struct.unpack("!q", octets)[0]
RECURSIVE BigEndian(_)
BigEndian(octets) ==
    IF octets = <<>> THEN 0
    ELSE BigEndian(SubSeq(octets, 1, Len(octets) - 1)) * 256
           + octets[Len(octets)]
Unpack(octets) ==
    IF Len(octets) = 8 THEN Ok(BigEndian(octets)) ELSE Raise("struct.error")

\* chr(n)
Chr(n) == IF n \in 0..255 THEN Ok(n) ELSE Raise("ValueError")

\* _propertyFactory, ByteField
ByteGet(start, end, data) == Ok(Slice(data, start \div 8, end \div 8))
ByteSet(start, end, data, value) ==
    Ok(SliceTo(data, start \div 8) \o value \o SliceFrom(data, end \div 8))

\* _propertyFactory, Int
IntGet(start, end, length, data) ==
    Unpack(Zeros(8 - length \div 8) \o Slice(data, start \div 8, end \div 8))
IntSet(start, end, length, data, value) ==
    IF value >= 2 ^ ((length \div 8) * 8) THEN Raise("ValueError")
    ELSE Ok(SliceTo(data, start \div 8)
              \o SliceFrom(Pack(value), 0 - (length \div 8))
              \o SliceFrom(data, end \div 8))

\* _propertyFactory, BitField: the values computed before the accessors
firstOctet(start) == start \div 8
offset(start) == start % 8
lastOctet(end) == (end - 1) \div 8
trailbits(end) == (8 - (end % 8)) % 8

\* "if firstOctet == lastOctet"
SingleOctet(start, end, length) == firstOctet(start) = lastOctet(end)

\* BitField in a single octet
BitGet1(start, end, length, data) ==
    LET mask == (2 ^ length - 1) * 2 ^ trailbits(end) IN
    Ok(BitAnd(At(data, firstOctet(start)), mask) \div 2 ^ trailbits(end))
BitSet1(start, end, length, data, value) ==
    LET mask == (2 ^ length - 1) * 2 ^ trailbits(end)
        octet == Chr(BitOr(BitAndNot(At(data, firstOctet(start)), mask),
                           value * 2 ^ trailbits(end)))
    IN  IF value >= 2 ^ length THEN Raise("ValueError")
        ELSE IF octet.exc # "" THEN octet
        ELSE Ok(SliceTo(data, firstOctet(start)) \o <<octet.val>>
                  \o SliceFrom(data, firstOctet(start) + 1))

\* BitField that crosses an octet boundary
startmask(start) == 2 ^ (8 - offset(start)) - 1
\* the bits that "& endmask" clears
endclear(end) == 2 ^ trailbits(end) - 1

\* "for octet in octets[1:-1]: value = value * 256 + ord(octet)"
RECURSIVE Accumulate(_, _)
Accumulate(value, octets) ==
    IF octets = <<>> THEN value
    ELSE Accumulate(value * 256 + Head(octets), Tail(octets))

BitGetN(start, end, length, data) ==
    LET octets == Slice(data, firstOctet(start), lastOctet(end) + 1)
        value == Accumulate(BitAnd(octets[1], startmask(start)),
                            Slice(octets, 1, 0 - 1))
    IN  IF octets = <<>> THEN Raise("IndexError")
        ELSE Ok(value * 2 ^ (8 - trailbits(end))
                + BitAndNot(octets[Len(octets)], endclear(end))
                    \div 2 ^ trailbits(end))

\* "for i in range(firstOctet+1,lastOctet)", n iterations
RECURSIVE Middle(_, _, _)
Middle(n, value, newData) ==
    IF n <= 0 THEN [value |-> value, newData |-> newData]
    ELSE Middle(n - 1, value \div 256, <<value % 256>> \o newData)

BitSetN(start, end, length, data, value) ==
    LET rem == value % 2 ^ (8 - trailbits(end))
        last == Chr(BitOr(BitAnd(At(data, lastOctet(end)), endclear(end)),
                          rem * 2 ^ trailbits(end)))
        mid == Middle(lastOctet(end) - (firstOctet(start) + 1),
                      value \div 2 ^ (8 - trailbits(end)), <<last.val>>)
        first == Chr(BitOr(BitAndNot(At(data, firstOctet(start)),
                                     startmask(start)), mid.value))
    IN  IF value >= 2 ^ length THEN Raise("ValueError")
        ELSE IF last.exc # "" THEN last
        ELSE IF first.exc # "" THEN first
        ELSE Ok(SliceTo(data, firstOctet(start)) \o <<first.val>>
                  \o mid.newData \o SliceFrom(data, lastOctet(end) + 1))

\* the getfield and setfield of the property made by _propertyFactory
getfield(type, start, end, length, data) ==
    CASE type = "ByteField" -> ByteGet(start, end, data)
      [] type = "Int" -> IntGet(start, end, length, data)
      [] type = "BitField" ->
           IF SingleOctet(start, end, length)
             THEN BitGet1(start, end, length, data)
             ELSE BitGetN(start, end, length, data)
setfield(type, start, end, length, data, value) ==
    CASE type = "ByteField" -> ByteSet(start, end, data, value)
      [] type = "Int" -> IntSet(start, end, length, data, value)
      [] type = "BitField" ->
           IF SingleOctet(start, end, length)
             THEN BitSet1(start, end, length, data, value)
             ELSE BitSetN(start, end, length, data, value)

\* ------------------------------------------------------------ formatFactory
Field(name, type, length, default) ==
    [name |-> name, type |-> type, length |-> length, default |-> default]

RECURSIVE SumLengths(_, _, _)
\* the lengths of the fields a..b of the format added up
SumLengths(fmt, a, b) ==
    IF a > b THEN 0 ELSE fmt[a].length + SumLengths(fmt, a + 1, b)

\* the field of unspecified length, 0 if there is none
VariableField(fmt) ==
    IF \E i \in DOMAIN fmt : fmt[i].length = None
      THEN CHOOSE i \in DOMAIN fmt : fmt[i].length = None
      ELSE 0

\* the field types _checkformat knows
FieldTypes == {"ByteField", "BitField", "MACAddr", "IPv4Addr", "Int"}

\* _checkformat that takes an Int field of any width
checkformatAnyInt(fmt) ==
    LET len(i) == IF fmt[i].length = None THEN 0 ELSE fmt[i].length
        RECURSIVE pos(_)
        pos(i) == IF i = 0 THEN 0 ELSE pos(i - 1) + len(i)
    IN  /\ \A i \in DOMAIN fmt :
             LET from == pos(i - 1)
                 to == pos(i)
                 f == fmt[i]
             IN  /\ f.length = None => f.type = "ByteField"
                 /\ f.type \in FieldTypes
                 /\ f.type = "ByteField" => from % 8 = 0 /\ to % 8 = 0
                 /\ f.type = "MACAddr" => len(i) = 48 /\ from % 8 = 0
                 /\ f.type = "IPv4Addr" => len(i) = 32 /\ from % 8 = 0
                 /\ f.type = "Int" => from % 8 = 0 /\ len(i) % 8 = 0
                 /\ f.type = "BitField" =>
                        ~(((to + 7) % 8) - (from % 8) > 8)
        /\ Cardinality({i \in DOMAIN fmt : fmt[i].length = None}) <= 1

\* _checkformat: no exception is raised
checkformat(fmt) ==
    LET len(i) == IF fmt[i].length = None THEN 0 ELSE fmt[i].length
        RECURSIVE pos(_)
        pos(i) == IF i = 0 THEN 0 ELSE pos(i - 1) + len(i)
    IN  /\ \A i \in DOMAIN fmt :
             LET from == pos(i - 1)
                 to == pos(i)
                 f == fmt[i]
             IN  /\ f.length = None => f.type = "ByteField"
                 /\ f.type \in FieldTypes
                 /\ f.type = "ByteField" => from % 8 = 0 /\ to % 8 = 0
                 /\ f.type = "MACAddr" => len(i) = 48 /\ from % 8 = 0
                 /\ f.type = "IPv4Addr" => len(i) = 32 /\ from % 8 = 0
                 /\ f.type = "Int" => /\ len(i) <= 64
                                      /\ from % 8 = 0 /\ len(i) % 8 = 0
                 /\ f.type = "BitField" =>
                        ~(((to + 7) % 8) - (from % 8) > 8)
        /\ Cardinality({i \in DOMAIN fmt : fmt[i].length = None}) <= 1

\* formatFactory, "start=start1+start2": the positions of the fields up to
\* the variable one counted from the front, those of the fields after it
\* and of the sentinel counted from the end
start(fmt) ==
    LET n == Len(fmt)
        v == VariableField(fmt)
        n1 == IF v = 0 THEN n ELSE v
        start1 == [i \in 1..n1 |-> SumLengths(fmt, 1, i - 1)]
        start2 == [k \in 1..(n - n1 + 1) |->
                     0 - 8 - SumLengths(fmt, n1 + k, n)]
    IN  start1 \o start2

\* formatFactory, totalLength in bits, the sentinel included
totalLength(fmt) ==
    LET v == VariableField(fmt) IN
    IF v = 0 THEN SumLengths(fmt, 1, Len(fmt)) + 8
    ELSE SumLengths(fmt, 1, v - 1) + 8 + SumLengths(fmt, v + 1, Len(fmt))

\* reading and writing field i of an object of the class
Get(fmt, i, data) ==
    getfield(fmt[i].type, start(fmt)[i], start(fmt)[i + 1], fmt[i].length,
             data)
Set(fmt, i, data, value) ==
    setfield(fmt[i].type, start(fmt)[i], start(fmt)[i + 1], fmt[i].length,
             data, value)

\* PDU.serialize and PDU.fill
serialize(data) == SliceTo(data, 0 - 1)
fill(bitstream) == bitstream \o <<0>>

\* formatFactory, "setattr(pdu, name, default)" for the fields i..n
RECURSIVE SetDefaults(_, _, _)
SetDefaults(fmt, i, data) ==
    IF i > Len(fmt) THEN Ok(data)
    ELSE IF fmt[i].default = NoDefault THEN SetDefaults(fmt, i + 1, data)
    ELSE LET r == Set(fmt, i, data, fmt[i].default[1]) IN
         IF r.exc # "" THEN r ELSE SetDefaults(fmt, i + 1, r.val)

\* _data of a new object of the class formatFactory returns
NewPDU(fmt) ==
    LET r == SetDefaults(fmt, 1, Zeros(totalLength(fmt) \div 8)) IN
    IF r.exc # "" THEN r ELSE Ok(serialize(r.val) \o <<0>>)

\* formatFactory returns a class
Valid(fmt) ==
    /\ checkformat(fmt)
    /\ totalLength(fmt) % 8 = 0
    /\ NewPDU(fmt).exc = ""

\* formatFactory: PDUFormatError from _checkformat or from the test of the
\* total length, else the _data of the objects of the class it returns
formatFactory(fmt) ==
    IF ~checkformat(fmt) THEN Raise("PDUFormatError")
    ELSE IF totalLength(fmt) % 8 # 0 THEN Raise("PDUFormatError")
    ELSE NewPDU(fmt)

\* ---- the formats and the values of the runs
\* fields of every type before and after the variable field, with
\* BitFields inside an octet and across an octet boundary (the layout of
\* the module's self test, shortened)
FormatBoth ==
    <<Field("Shortbit1", "BitField", 3, <<7>>),
      Field("Longbit1", "BitField", 13, NoDefault),
      Field("In1", "Int", 16, <<334>>),
      Field("data", "ByteField", None, <<<<115, 100>>>>),
      Field("By2", "ByteField", 8, NoDefault),
      Field("Longbit3", "BitField", 6, NoDefault),
      Field("Longbit4", "BitField", 10, NoDefault),
      Field("In2", "Int", 8, <<1>>)>>
\* the variable field first and last
FormatDataFirst ==
    <<Field("data", "ByteField", None, NoDefault), Field("In2", "Int", 8, NoDefault)>>
FormatDataLast ==
    <<Field("Shortbit1", "BitField", 8, NoDefault),
      Field("data", "ByteField", None, NoDefault)>>
\* no variable field: the last field is an Int, a BitField inside the last
\* octet, a BitField over the last two octets, over the last three
FormatFixedInt ==
    <<Field("By1", "ByteField", 16, NoDefault), Field("In1", "Int", 16, NoDefault)>>
FormatFixedBit1 ==
    <<Field("In1", "Int", 8, NoDefault),
      Field("Shortbit1", "BitField", 5, NoDefault),
      Field("Shortbit2", "BitField", 3, NoDefault)>>
FormatFixedBit2 ==
    <<Field("Shortbit1", "BitField", 4, NoDefault),
      Field("Longbit1", "BitField", 12, NoDefault)>>
FormatFixedBit3 ==
    <<Field("Shortbit1", "BitField", 4, NoDefault),
      Field("Longbit1", "BitField", 20, NoDefault)>>
Formats ==
    <<FormatBoth, FormatDataFirst, FormatDataLast, FormatFixedInt,
      FormatFixedBit1, FormatFixedBit2, FormatFixedBit3>>

\* legal values of a field: the smallest, the largest, and some between
Values(f) ==
    CASE f.length = None -> {<<>>, <<97>>, <<97, 98, 99>>}
      [] f.length # None /\ f.type = "ByteField" ->
           {Zeros(f.length \div 8), [i \in 1..(f.length \div 8) |-> 255],
            [i \in 1..(f.length \div 8) |-> 48 + i]}
      [] f.length # None /\ f.type # "ByteField" ->
           {0, 1, 2 ^ (f.length - 1) + 1, 2 ^ f.length - 1}
             \cap 0..(2 ^ f.length - 1)

\* what every field of pdu1 reads
Reads(fmt, data) == [i \in DOMAIN fmt |-> Get(fmt, i, data)]

\* "pdu1.name = value" for field i
Assign(i, value) ==
    /\ raised = ""
    /\ assigned.n < MaxAssign
    /\ LET r == Set(format, i, pdu1, value) IN
         /\ raised' = r.exc
         /\ pdu1' = IF r.exc = "" THEN r.val ELSE pdu1
    /\ assigned' = [n |-> assigned.n + 1, field |-> i, value |-> value,
                    before |-> Reads(format, pdu1)]
    /\ pdu2' = NewPDU(format).val
    /\ UNCHANGED format
    /\ UNCHANGED <<schedVars, arqVars>>

\* "pdu2.fill(pdu1.serialize())"
Fill ==
    /\ raised = ""
    /\ pdu2' = fill(serialize(pdu1))
    /\ UNCHANGED <<format, pdu1, assigned, raised>>
    /\ UNCHANGED <<schedVars, arqVars>>

PduNext ==
    \/ \E i \in DOMAIN format : \E value \in Values(format[i]) :
          Assign(i, value)
    \/ Fill

\* two new objects of a class made from one of the formats
PduInit ==
    /\ SchedIdle /\ ArqIdle
    /\ \E k \in DOMAIN Formats : Valid(Formats[k]) /\ format = Formats[k]
    /\ pdu1 = NewPDU(format).val
    /\ pdu2 = NewPDU(format).val
    /\ assigned = [n |-> 0, field |-> 0, value |-> None, before |-> <<>>]
    /\ raised = ""

PduSpec == PduInit /\ [][PduNext]_vars

\* ---- the layouts handed to formatFactory
MaxFields == 2
\* field types: the five that exist and one that does not
LayoutTypes == FieldTypes \cup {"Float"}
\* field lengths in bits: unspecified, less than an octet, whole octets,
\* the lengths of an IPv4 and a MAC address, more than 64
LayoutLengths == {None, 3, 8, 32, 48, 72}
FieldNames == <<"f1", "f2", "f3", "f4">>

\* "cls = formatFactory(format, self)": raised is the exception, pdu1 the
\* _data of a new object of the class if one is returned
CallFormatFactory ==
    /\ assigned.n = 0
    /\ LET r == formatFactory(format) IN
         /\ raised' = r.exc
         /\ pdu1' = IF r.exc = "" THEN r.val ELSE <<>>
    /\ assigned' = [assigned EXCEPT !.n = 1]
    /\ UNCHANGED <<format, pdu2>>
    /\ UNCHANGED <<schedVars, arqVars>>

\* a layout of up to MaxFields fields, none with a default value, and no
\* class made from it yet
FactoryInit ==
    /\ SchedIdle /\ ArqIdle
    /\ \E n \in 1..MaxFields :
         \E ts \in [1..n -> LayoutTypes], ls \in [1..n -> LayoutLengths] :
            format = [i \in 1..n |->
                        Field(FieldNames[i], ts[i], ls[i], NoDefault)]
    /\ pdu1 = <<>>
    /\ pdu2 = <<>>
    /\ assigned = [n |-> 0, field |-> 0, value |-> None, before |-> <<>>]
    /\ raised = ""

FactorySpec == FactoryInit /\ [][CallFormatFactory]_vars

\* ---------------------------------------------------- scheduler claims
\* (time, priority) order of two events
TimePrioLeq(a, b) == a[1] < b[1] \/ (a[1] = b[1] /\ a[2] <= b[2])

C2_ClockIsFireTime ==
    /\ \A i \in DOMAIN fired : fired[i].at = fired[i].ev[1]
    /\ Len(fired) = 2 => fired[1].at <= fired[2].at

\* the clock has advanced between two invocations
C2_Witness == Len(fired) = 2 /\ fired[1].at < fired[2].at

\* C3: the queue holds exactly the events that were entered and neither
\* fired, cancelled nor deleted by terminate; so an event cancelled while
\* pending is never invoked, and every other pending event is still popped.
C3_CancelledNeverFires ==
    /\ SeqToBag(queue) = due
    /\ pc = "cb" => cur \in handles

\* an event was cancelled while pending, from a callback, and the events
\* that were pending with it have fired since
C3_Witness ==
    /\ lastCancelled # NoEvent
    /\ Len(fired) = 2
    /\ \A i \in DOMAIN fired : fired[i].ev # lastCancelled
    /\ queue = <<>>
    /\ pc = "cb"

\* ---------------------------------------------------------- ARQ claims
\* the payloads are ones the sender accepted, each at most once, in the
\* order in which they were accepted
InSendOrder(d, n) ==
    /\ \A i \in DOMAIN d : d[i][1] \in 1..n
    /\ \A i, j \in DOMAIN d : i < j => d[i][1] < d[j][1]

Outstanding(e) == (ent[e].SNmax - ent[e].SNmin) % SN_MOD

\* C6: Go-Back-N with window size W: the number of outstanding frames
\* (SNmax - SNmin) mod M never exceeds W, and XOFF is True exactly when that
\* number is W, so it is False again after each acknowledgement that brings
\* the number below W.
C6_WindowBound ==
    \A e \in E :
       /\ Outstanding(e) <= cfg.winSize
       /\ ent[e].XOFF <=> Outstanding(e) = cfg.winSize
\* the same for the window sizes from 1 on
C6_WindowBoundFromOne == cfg.winSize >= 1 => C6_WindowBound

\* the sequence numbers of the retransmissions that wait in the transmit
\* queue of an entity with attributes s
RetransmitQueue(s) ==
    LET rq == SelectSeq(s.transmitQueue, LAMBDA el : el[1] = RETR)
    IN [i \in 1..Len(rq) |-> rq[i][2]]

\* the sequence numbers follow each other in the order of the window, that
\* is by their distance from snmin
InWindowOrder(sns, snmin) ==
    \A i, j \in DOMAIN sns :
       i < j => (sns[i] - snmin) % SN_MOD < (sns[j] - snmin) % SN_MOD

\* the payloads are the first ones the sender accepted, in send order
IsPrefixOfSent(d) == \A i \in DOMAIN d : d[i] = Payload(i)

\* host 2 has delivered as many payloads as host 1 has accepted
AllDelivered == Len(up[2].delivered) = up[1].nSent

\* entity e hands a retransmission to the phy layer
Retransmits(e) ==
    ent'[e].packetRetransmissions > ent[e].packetRetransmissions

\* the frame handed to the phy layer comes before the retransmissions
\* that wait, in the order of the window
OldestFirst(e) ==
    InWindowOrder(<<phy'[e][Len(phy'[e])].SN>> \o RetransmitQueue(ent'[e]),
                  ent'[e].SNmin)

\* C7: Go-Back-N over a link that loses one data frame: the receiver
\* delivers nothing out of order (what it has delivered is always the first
\* payloads sent, each once), the frames retransmitted after the timeout go
\* out in the order of the window, the lost frame first, and again and
\* again all accepted payloads are delivered.
C7_GBNRecoversFromLoss ==
    /\ [](IsPrefixOfSent(up[2].delivered)
          /\ InWindowOrder(RetransmitQueue(ent[1]), ent[1].SNmin))
    /\ [][Retransmits(1) => OldestFirst(1)]_vars
    /\ []<>AllDelivered
\* the order of the retransmissions in the runs that start from 0
C7_OldestFirstFromZero ==
    /\ [](cfg.start = 0 =>
            InWindowOrder(RetransmitQueue(ent[1]), ent[1].SNmin))
    /\ [][cfg.start = 0 /\ Retransmits(1) => OldestFirst(1)]_vars

\* the payload the sender puts into the frame with sequence number sn
PayloadOf(sn) == Payload(((sn - cfg.start) % SN_MOD) + 1)

\* host 2 takes the oldest frame under way to it, intact
Receives2 ==
    /\ link[1] # <<>>
    /\ link'[1] = Tail(link[1])
    /\ faults' = faults

\* C8: Selective-Repeat receiver with window W.  What it holds are frames
\* of the window after VR, with their payloads, and never the one at VR: the
\* run that starts at VR has been delivered.  What it has delivered are the
\* first payloads the sender accepted, each once, in the order of the
\* sequence numbers, and VR is the number after the last of them.  An
\* arriving data frame with SN in [VR, VR+W) is buffered or delivered by
\* that arrival; any other frame changes neither buffer nor deliveries.
C8_SRReceiver ==
    /\ [](/\ IsPrefixOfSent(up[2].delivered)
          /\ ent[2].VR = (cfg.start + Len(up[2].delivered)) % SN_MOD
          /\ \A sn \in DOMAIN ent[2].receiveBuffer :
               /\ sn # ent[2].VR
               /\ (sn - ent[2].VR) % SN_MOD < cfg.winSize
               /\ ent[2].receiveBuffer[sn] = PayloadOf(sn))
    /\ [][Receives2 =>
            LET f == Head(link[1]) IN
            IF Len(f.data) # 0
               /\ (f.SN - ent[2].VR) % SN_MOD < cfg.winSize
              THEN \/ f.SN \in DOMAIN ent'[2].receiveBuffer
                   \/ /\ Len(up'[2].delivered) > Len(up[2].delivered)
                      /\ \E i \in DOMAIN up'[2].delivered :
                            /\ i > Len(up[2].delivered)
                            /\ up'[2].delivered[i] = f.data
              ELSE /\ up'[2].delivered = up[2].delivered
                   /\ ent'[2].receiveBuffer = ent[2].receiveBuffer]_vars
\* the frame after the first one has come first and its acknowledgement is
\* on the link; then the first one has come, both payloads are delivered
\* and its acknowledgement is being transmitted
C8_Witness ==
    /\ cfg.arq = "SR"
    /\ up[2].delivered = Payloads(2)
    /\ ent[2].receiveBuffer = EmptyDict
    /\ link[2] = <<MakeFrame(cfg.start, (cfg.start + 1) % SN_MOD, 0, <<>>)>>
    /\ phy[2] = <<MakeFrame(cfg.start, cfg.start, 0, <<>>)>>

\* C9: Selective-Repeat over a link that loses one data frame and nothing
\* else: only a lost frame is ever retransmitted, when all frames are
\* acknowledged after the loss exactly one retransmission has been made,
\* what is delivered is always the first payloads sent, in send order, and
\* again and again all accepted payloads are delivered.
C9_SRRetransmitsOnlyLost ==
    /\ [](/\ IsPrefixOfSent(up[2].delivered)
          /\ ent[1].packetRetransmissions <= faults.lost
          /\ (faults.lost = 1 /\ ent[1].sendBuffer = EmptyDict)
                => ent[1].packetRetransmissions = 1)
    /\ [][ent'[1].packetRetransmissions > ent[1].packetRetransmissions =>
            /\ phy'[1] # <<>>
            /\ phy'[1][Len(phy'[1])].SN \in faults.sns]_vars
    /\ []<>AllDelivered
\* the second of three frames was lost and retransmitted, all three
\* payloads are delivered and acknowledged
C9_Witness ==
    /\ cfg.arq = "SR" /\ cfg.patient
    /\ faults.sns = {(cfg.start + 1) % SN_MOD}
    /\ ent[1].packetRetransmissions = 1
    /\ up[2].delivered = Payloads(3)
    /\ ent[1].sendBuffer = EmptyDict
    /\ up[1].nSent = 3

\* the frames entity e has handed to the phy layer and that are under way
FramesUnderWay(e) == {(phy[e] \o link[e])[i] : i \in 1..Len(phy[e] \o link[e])}

\* the sequence numbers are numbers modulo m: those an entity keeps, those
\* in the frames, and no frame field has been given a number it cannot take
NumbersBelow(m) ==
    /\ err # "ValueError"
    /\ \A e \in E :
         /\ ent[e].SNmin < m /\ ent[e].SNmax < m /\ ent[e].VR < m
         /\ \A f \in FramesUnderWay(e) : f.SN < m /\ f.RN < m

\* C10: a Go-Back-N or Selective-Repeat entity built with N bits for the
\* sequence numbers counts modulo 2^N: every SN and RN written into a frame
\* is below 2^N and the number after 2^N - 1 is 0.
C10_SequenceModulus == NumbersBelow(2 ^ cfg.numSNBits)
\* the same for the entities built with the default of 16 bits
C10_SequenceModulus16 == cfg.numSNBits = 16 => NumbersBelow(2 ^ 16)

\* ---------------------------------------------------------- codec claims
\* C11: after a legal value has been assigned to a field of a new object,
\* no exception was raised and the field reads that value; and when a
\* second object of the class holds the serialization of the first, the
\* field of the second object reads that value too.
C11_RoundTrip ==
    assigned.n > 0 =>
       /\ raised = ""
       /\ Get(format, assigned.field, pdu1) = Ok(assigned.value)
       /\ pdu2 = fill(serialize(pdu1)) =>
             Get(format, assigned.field, pdu2) = Ok(assigned.value)

\* C12: an assignment of a legal value to one field leaves what every
\* other field reads as it was before the assignment.
C12_OtherFieldsUnchanged ==
    assigned.n > 0 /\ raised = "" =>
       \A j \in DOMAIN format \ {assigned.field} :
          Get(format, j, pdu1) = assigned.before[j]

\* the bits of a sequence of octets, most significant bit first
BitsOf(octets) ==
    [k \in 1..(8 * Len(octets)) |->
       (octets[((k - 1) \div 8) + 1] \div 2 ^ (7 - ((k - 1) % 8))) % 2]

\* the width of field i in a serialization: its declared length, and for
\* the variable field what the other fields leave
WidthIn(fmt, i, stream) ==
    IF fmt[i].length # None THEN fmt[i].length
    ELSE 8 * Len(stream) - (totalLength(fmt) - 8)

RECURSIVE OffsetIn(_, _, _)
\* the sum of the widths of the fields before field i
OffsetIn(fmt, i, stream) ==
    IF i = 1 THEN 0
    ELSE OffsetIn(fmt, i - 1, stream) + WidthIn(fmt, i - 1, stream)

\* the bits of field i in a serialization
FieldBits(fmt, i, stream) ==
    SubSeq(BitsOf(stream), OffsetIn(fmt, i, stream) + 1,
           OffsetIn(fmt, i, stream) + WidthIn(fmt, i, stream))

\* the value is one the field can hold, and these bits are its encoding
EncodedAs(f, value, bits) ==
    IF f.type = "ByteField" THEN BitsOf(value) = bits
    ELSE /\ value \in 0..(2 ^ Len(bits) - 1)
         /\ bits = [k \in 1..Len(bits) |->
                       (value \div 2 ^ (Len(bits) - k)) % 2]

\* C13: the serialization is as long as the fields are wide together, every
\* field reads the value encoded in the bits from the sum of the preceding
\* widths up to that sum plus its own width, and an assignment puts the
\* encoding of the assigned value there.
C13_SerializeIsConcatenation ==
    raised = "" =>
       LET stream == serialize(pdu1) IN
       /\ 8 * Len(stream) >= totalLength(format) - 8
       /\ VariableField(format) = 0 =>
             8 * Len(stream) = totalLength(format) - 8
       /\ \A i \in DOMAIN format :
             /\ Get(format, i, pdu1).exc = ""
             /\ EncodedAs(format[i], Get(format, i, pdu1).val,
                          FieldBits(format, i, stream))
       /\ assigned.n > 0 =>
             EncodedAs(format[assigned.field], assigned.value,
                       FieldBits(format, assigned.field, stream))

\* the format has no variable field and its last field is a BitField
EndsWithBitField(fmt) ==
    VariableField(fmt) = 0 /\ fmt[Len(fmt)].type = "BitField"

\* what C11, C12 and C13 say holds for the objects of every other format
C11_RoundTripElsewhere == ~EndsWithBitField(format) => C11_RoundTrip
C12_OtherFieldsUnchangedElsewhere ==
    ~EndsWithBitField(format) => C12_OtherFieldsUnchanged
C13_SerializeIsConcatenationElsewhere ==
    ~EndsWithBitField(format) => C13_SerializeIsConcatenation


\* ------------------------------------------------ codec claims, continued
\* the bit at which field i starts: the lengths of the fields before it,
\* an unspecified length counting as nothing
StartBit(fmt, i) ==
    LET RECURSIVE upto(_)
        upto(k) == IF k = 0 THEN 0
                   ELSE upto(k - 1)
                        + (IF fmt[k].length = None THEN 0 ELSE fmt[k].length)
    IN upto(i - 1)

\* the layouts that are to be refused
MoreThanOneVariable(fmt) ==
    Cardinality({i \in DOMAIN fmt : fmt[i].length = None}) > 1
VariableNotByteField(fmt) ==
    \E i \in DOMAIN fmt : fmt[i].length = None /\ fmt[i].type # "ByteField"
UnknownType(fmt) ==
    \E i \in DOMAIN fmt :
       fmt[i].type \notin {"ByteField", "BitField", "MACAddr", "IPv4Addr",
                           "Int"}
NotOnOctetBoundary(fmt) ==
    \E i \in DOMAIN fmt :
       /\ fmt[i].type \in {"Int", "MACAddr", "IPv4Addr", "ByteField"}
       /\ StartBit(fmt, i) % 8 # 0
IntTooWide(fmt) ==
    \E i \in DOMAIN fmt :
       fmt[i].type = "Int" /\ fmt[i].length # None /\ fmt[i].length > 64
NotWholeOctets(fmt) == StartBit(fmt, Len(fmt) + 1) % 8 # 0

\* C27: formatFactory raises PDUFormatError, and returns no class, for
\* every layout with more than one field of unspecified length, with a
\* field of unspecified length that is not a ByteField, with a field of
\* unknown type, with an Int, MACAddr, IPv4Addr or ByteField that does not
\* start on an octet boundary, with an Int of more than 64 bits, or with
\* fixed lengths that do not add up to a whole number of octets.
C27_BadLayoutsAreRefused ==
    (/\ assigned.n = 1
     /\ \/ MoreThanOneVariable(format)
        \/ VariableNotByteField(format)
        \/ UnknownType(format)
        \/ NotOnOctetBoundary(format)
        \/ IntTooWide(format)
        \/ NotWholeOctets(format))
       => raised = "PDUFormatError" /\ pdu1 = <<>>
\* a layout of two ByteFields of unspecified length has been refused
C27_Witness ==
    /\ assigned.n = 1
    /\ Len(format) = 2
    /\ \A i \in DOMAIN format :
          format[i].type = "ByteField" /\ format[i].length = None
    /\ raised = "PDUFormatError" /\ pdu1 = <<>>

\* the change of the length of the serialized frame that an assignment of
\* value to field i is to make
LengthChange(fmt, i, old, value) ==
    IF fmt[i].length # None THEN 0 ELSE Len(value) - Len(old)

\* C28: an assignment to a field of fixed width leaves the length of the
\* serialized frame as it was, and an assignment to the field of
\* unspecified length changes it by the difference between the length of
\* the new payload and that of the old one.
C28_OnlyPayloadChangesLength ==
    [][assigned'.n = assigned.n + 1 /\ raised' = "" =>
          Len(serialize(pdu1')) - Len(serialize(pdu1))
             = LengthChange(format, assigned'.field,
                            Get(format, assigned'.field, pdu1).val,
                            assigned'.value)]_vars
\* the same for the formats that have a variable field or do not end with a
\* BitField
C28_OnlyPayloadChangesLengthElsewhere ==
    [][assigned'.n = assigned.n + 1 /\ raised' = ""
          /\ ~EndsWithBitField(format) =>
          Len(serialize(pdu1')) - Len(serialize(pdu1))
             = LengthChange(format, assigned'.field,
                            Get(format, assigned'.field, pdu1).val,
                            assigned'.value)]_vars
\* ------------------------------------------- scheduler claims, continued
\* C14: a cancel call whose handle is not pending (the event has fired, was
\* cancelled, was never queued, or was deleted by terminate) raises an
\* error: no such call returns as if nothing was wrong.
C14_CancelOfNonPendingRaises == result # "ignored"

\* C15: an enter with a negative delay or an enterabs with a time before
\* now() raises an error: no such call returns a handle as if the event had
\* been entered.  (No event is added: the queue is left as it is.)
C15_PastEnterRaises == result # "past, not queued"

\* C16: no callback is invoked for an event whose fire time is beyond the
\* horizon of the run, be the event entered before run() or during it.
C16_NothingFiresBeyondUntil ==
    [][pc = "loop" /\ pc' = "cb" => cur'[1] <= maxtime]_vars

\* C17, as stated: after a callback has called halt() the loop returns with
\* the pending events and the clock as the halting callback left them.
C17_HaltKeepsClock ==
    [][pc = "loop" /\ pc' = "idle" /\ ~running =>
          queue' = queue /\ simtime' = simtime]_vars

\* C17, amended: no callback is invoked while the scheduler is halted; if
\* events are pending when the loop finds the scheduler halted, it returns
\* with the queue and the clock unchanged; cont() leaves both unchanged
\* too, and the loop it enters pops the pending events least (time,
\* priority) first, the clock going on from where it was.
C17_HaltKeepsPendingAndClock ==
    [][/\ pc = "loop" /\ pc' = "cb" =>
             /\ running
             /\ cur' = Head(queue)
             /\ \A i \in DOMAIN queue' : TimePrioLeq(cur', queue'[i])
             /\ simtime' = IF simtime < cur'[1] THEN cur'[1] ELSE simtime
       /\ pc = "loop" /\ pc' = "idle" /\ ~running /\ queue # <<>> =>
             queue' = queue /\ simtime' = simtime /\ ~running'
       /\ Cont => queue' = queue /\ simtime' = simtime]_vars

\* halted: the loop has returned after a callback at a time after 0, it is
\* not running, an event is pending and the clock is the time of the last
\* callback
C17_Witness ==
    /\ pc = "idle" /\ ~running /\ ~singleStep
    /\ queue # <<>>
    /\ fired # <<>>
    /\ simtime = fired[Len(fired)].at
    /\ simtime > 0

\* C18: a step() call that finds an event pending executes exactly one
\* event: it enters the event loop, and the loop returns after the first
\* callback unless nothing is pending any more.
C18_StepExecutesOneEvent ==
    [][/\ Step /\ queue # <<>> => pc' = "loop"
       /\ singleStep /\ pc = "cb" /\ pc' = "loop" => queue = <<>>]_vars

\* the scheduler as Scheduler.__init__ leaves it
Initial ==
    /\ queue = <<>>
    /\ simtime = 0
    /\ ~running
    /\ ~singleStep
    /\ maxtime = NoHorizon

\* C19: after terminate() in a running simulation (which sets the horizon
\* to 0) no callback is invoked any more, and when the event loop returns
\* the scheduler is in its initial state.
C19_NothingFiresAfterTerminate ==
    [][/\ maxtime = 0 /\ pc = "loop" => pc' # "cb"
       /\ maxtime = 0 /\ pc = "loop" /\ pc' = "idle" => Initial']_vars

\* --------------------------------------------------- ARQ claims, continued
\* C20: a send call made while the entity is blocked returns a status to
\* its caller (it raises no exception) and leaves the state of the entity,
\* its timers and the frames handed to the phy layer as they were.
C20_BlockedSendReturnsStatus ==
    [][\A e \in E : SendBlocked(e) =>
          /\ err' = ""
          /\ ent' = ent /\ timers' = timers /\ phy' = phy]_vars

\* the part of C20 that holds: the blocked call leaves the state as it was
C20_BlockedSendKeepsState ==
    [][\A e \in E : SendBlocked(e) =>
          ent' = ent /\ timers' = timers /\ phy' = phy /\ up' = up]_vars

\* Stop-and-Wait or Go-Back-N over a link that loses and corrupts frames,
\* with timeouts at any time
CrcInit ==
    /\ SchedIdle
    /\ \/ ArqInit(Conf("SW", FALSE, MaxLoss, FALSE, 1, 1, 0), SWNew)
       \/ ArqInit(Conf("GBN", FALSE, MaxLoss, FALSE, MaxWin, 16, 0),
                  GBNNew(0))
CrcSpec == CrcInit /\ [][ArqNext]_vars

\* C21: in Stop-and-Wait and Go-Back-N the receipt of a frame whose FCS is
\* wrong adds one to the CRC error counter of the receiving entity and does
\* nothing else: its other attributes (VS or SNmin and SNmax, VR, send
\* buffer, transmit queue, XOFF), its timers and the frames it has handed
\* to the phy layer are as before, nothing goes to the upper layer and no
\* exception is raised.
C21_CorruptFrameOnlyCounts ==
    [][\A e \in E : ReceiveCorrupt(e) =>
          /\ err' = ""
          /\ ent' = [ent EXCEPT ![e].crcErrors = @ + 1]
          /\ timers' = timers /\ phy' = phy /\ up' = up
          /\ link'[e] = link[e]]_vars
\* a corrupted frame has reached an entity that has a frame outstanding and
\* its timer pending
C21_Witness ==
    \E e \in E :
       /\ ent[e].crcErrors = 1
       /\ timers[e] # <<>>
       /\ ent[e].sendBuffer # (IF cfg.arq = "SW" THEN NoFrame ELSE EmptyDict)

\* Go-Back-N with a window that spans the wraparound of the sequence
\* numbers, over a link that loses and corrupts frames, with timeouts at
\* any time
GBNWrapInit ==
    /\ SchedIdle
    /\ ArqInit(Conf("GBN", FALSE, MaxLoss, FALSE, MaxWin, 16, SN_MOD - 1),
               GBNNew(SN_MOD - 1))
GBNWrapSpec == GBNWrapInit /\ [][ArqNext]_vars

\* entity e takes the oldest frame under way to it, intact
Receives(e) ==
    /\ link[Peer(e)] # <<>>
    /\ link'[Peer(e)] = Tail(link[Peer(e)])
    /\ faults' = faults

\* the sequence numbers from snmin up to the one before rn, in the order of
\* the window
Before(snmin, rn) ==
    [i \in 1..((rn - snmin) % SN_MOD) |-> (snmin + i - 1) % SN_MOD]

\* the elements of a sequence
Range(q) == {q[i] : i \in DOMAIN q}

\* C22: Go-Back-N sender.  When an intact frame arrives whose RN is after
\* SNmin and at most SNmax, in the order of the window, SNmin becomes RN,
\* the frames from the old SNmin up to the one before RN, and no others,
\* leave the send buffer, none of them has a timer any more, and their
\* payloads are reported complete, once each, in the order of their sequence
\* numbers.  An RN outside the window leaves SNmin, SNmax, the send buffer
\* and the completions as they were, and a frame without data that carries
\* it leaves everything as it was.
C22_GBNCumulativeAck ==
    [][\A e \in E : Receives(e) =>
         LET s == ent[e]
             RN == Head(link[Peer(e)]).RN
             rel == Before(s.SNmin, RN)
         IN IF /\ s.SNmin # s.SNmax
               /\ (RN - s.SNmin) % SN_MOD <= (s.SNmax - s.SNmin) % SN_MOD
              THEN /\ err' = ""
                   /\ ent'[e].SNmin = RN
                   /\ DOMAIN ent'[e].sendBuffer
                         = (DOMAIN s.sendBuffer) \ Range(rel)
                   /\ \A sn \in DOMAIN ent'[e].sendBuffer :
                         ent'[e].sendBuffer[sn] = s.sendBuffer[sn]
                   /\ ent'[e].retransmissionTimer \cap Range(rel) = {}
                   /\ Range(timers'[e]) \cap Range(rel) = {}
                   /\ up'[e].completed = up[e].completed
                         \o [i \in DOMAIN rel |-> s.sendBuffer[rel[i]]]
              ELSE /\ ent'[e].SNmin = s.SNmin /\ ent'[e].SNmax = s.SNmax
                   /\ ent'[e].sendBuffer = s.sendBuffer
                   /\ up'[e].completed = up[e].completed
                   /\ Len(Head(link[Peer(e)]).data) = 0 =>
                         /\ ent'[e] = s /\ timers'[e] = timers[e]
                         /\ phy'[e] = phy[e] /\ up'[e] = up[e]]_vars
\* two frames were sent and neither retransmitted, one of the two
\* acknowledgements was lost and the other one released both frames
C22_Witness ==
    /\ cfg.arq = "GBN"
    /\ up[1].nSent = 2 /\ up[1].completed = Payloads(2)
    /\ ent[1].packetRetransmissions = 0 /\ faults.timeouts = 0
    /\ faults.lost = 1 /\ faults.sns = {}

\* the sequence numbers of the data frames entity e hands to the phy layer
\* in this step, followed by those of the retransmissions that wait in its
\* transmit queue after it
RetransmissionOrder(e) ==
    LET new == SelectSeq(SubSeq(phy'[e], Len(phy[e]) + 1, Len(phy'[e])),
                         LAMBDA f : Len(f.data) # 0)
    IN [i \in DOMAIN new |-> new[i].SN] \o RetransmitQueue(ent'[e])

\* C23: Go-Back-N: when the retransmission timer of an outstanding frame
\* fires, every frame of the window is retransmitted, the oldest first, in
\* the order of the window from SNmin to the number before SNmax, also when
\* the window spans the wraparound of the sequence numbers.
C23_TimeoutRetransmitsWindowInOrder ==
    [][\A e \in E : Timeout(e) =>
          /\ err' = ""
          /\ RetransmissionOrder(e) = Before(ent[e].SNmin, ent[e].SNmax)]_vars
\* the same for the windows that do not span the wraparound
C23_InOrderWithoutWrap ==
    [][\A e \in E : Timeout(e) /\ ent[e].SNmin <= ent[e].SNmax =>
          /\ err' = ""
          /\ RetransmissionOrder(e) = Before(ent[e].SNmin, ent[e].SNmax)]_vars

\* an acknowledgement with RN = rn waits in the transmit queue of entity e
\* after the step, or has been handed to the phy layer in it
AckQueued(e, rn) ==
    \/ InQueue(ent'[e].transmitQueue, <<ACK, rn>>)
    \/ /\ Len(phy'[e]) = Len(phy[e]) + 1
       /\ phy'[e][Len(phy'[e])].RN = rn
       /\ phy'[e][Len(phy'[e])].data = <<>>

\* C24: Go-Back-N receiver.  An arriving data frame is passed to the upper
\* layer only if its SN is VR; then VR advances by one modulo M and an
\* acknowledgement carrying the new VR is queued.  A data frame with any
\* other SN adds one to the sequence error counter, is neither buffered nor
\* delivered, leaves VR as it was and has an acknowledgement carrying that
\* VR queued.
C24_GBNReceiverInOrderOnly ==
    [][\A e \in E :
       /\ up'[e].delivered # up[e].delivered =>
             /\ Receives(e)
             /\ Len(Head(link[Peer(e)]).data) # 0
             /\ Head(link[Peer(e)]).SN = ent[e].VR
       /\ Receives(e) /\ Len(Head(link[Peer(e)]).data) # 0 =>
         LET f == Head(link[Peer(e)]) IN
         /\ err' = ""
         /\ ent'[e].receiveBuffer = ent[e].receiveBuffer
         /\ AckQueued(e, ent'[e].VR)
         /\ IF f.SN = ent[e].VR
              THEN /\ up'[e].delivered = Append(up[e].delivered, f.data)
                   /\ ent'[e].VR = (ent[e].VR + 1) % SN_MOD
                   /\ ent'[e].sequenceErrors = ent[e].sequenceErrors
              ELSE /\ up'[e].delivered = up[e].delivered
                   /\ ent'[e].VR = ent[e].VR
                   /\ ent'[e].sequenceErrors = ent[e].sequenceErrors + 1]_vars
\* the first frame was lost, the one after it was rejected, and after the
\* retransmission both payloads have been delivered across the wraparound
C24_Witness ==
    /\ cfg.arq = "GBN"
    /\ ent[2].sequenceErrors >= 1
    /\ up[2].delivered = Payloads(2)
    /\ ent[2].VR = (cfg.start + 2) % SN_MOD

\* Selective-Repeat with a retransmission timeout shorter than the round
\* trip, so that a frame is retransmitted more than once before its
\* acknowledgement arrives, over a link that corrupts frames in both
\* directions
SRStormInit ==
    /\ SchedIdle
    /\ ArqInit([Conf("SR", FALSE, MaxLoss + 1, FALSE, MaxWin, 16, 0)
                   EXCEPT !.maxTimeouts = MaxTimeouts + 1],
               GBNNew(0))
SRStormSpec == SRStormInit /\ [][ArqNext]_vars

\* the frames entity e holds are frames of its window
HeldInWindow(e) ==
    \A sn \in DOMAIN ent[e].sendBuffer :
       (sn - ent[e].SNmin) % SN_MOD < (ent[e].SNmax - ent[e].SNmin) % SN_MOD

\* C25: Selective-Repeat sender.  An intact acknowledgement whose RN is a
\* frame of the window that the sender holds releases that frame and no
\* other: the frame leaves the send buffer, its timer is cancelled and the
\* other timers stay, and its payload is reported complete once.  SNmin
\* then moves forward over numbers that are no longer held, and at no time
\* is a held frame outside the window from SNmin to SNmax.  Any other
\* acknowledgement leaves the sender as it was.
C25_SRAckReleasesOne ==
    /\ [](cfg.arq = "SR" => \A e \in E : HeldInWindow(e))
    /\ [][\A e \in E :
            (/\ Receives(e)
             /\ Head(link[Peer(e)]).SREJ = 0
             /\ Len(Head(link[Peer(e)]).data) = 0) =>
            LET s == ent[e]
                RN == Head(link[Peer(e)]).RN
            IN IF RN \in DOMAIN s.sendBuffer
                 THEN /\ err' = ""
                      /\ ent'[e].sendBuffer = DictDel(s.sendBuffer, RN)
                      /\ ent'[e].retransmissionTimer
                            = s.retransmissionTimer \ {RN}
                      /\ timers'[e]
                            = SelectSeq(timers[e], LAMBDA sn : sn # RN)
                      /\ up'[e].completed
                            = Append(up[e].completed, s.sendBuffer[RN])
                      /\ ent'[e].SNmax = s.SNmax
                      /\ (ent'[e].SNmin - s.SNmin) % SN_MOD
                            <= (s.SNmax - s.SNmin) % SN_MOD
                      /\ \A sn \in Range(Before(s.SNmin, ent'[e].SNmin)) :
                            sn \notin DOMAIN ent'[e].sendBuffer
                      /\ \/ ent'[e].SNmin = s.SNmax
                         \/ ent'[e].SNmin \in DOMAIN ent'[e].sendBuffer
                 ELSE /\ ent'[e] = s /\ timers'[e] = timers[e]
                      /\ up'[e] = up[e] /\ phy'[e] = phy[e]]_vars

\* Selective-Repeat between a sender with the largest window and a receiver
\* whose window (setWindowSize) is smaller by one, over a link that loses
\* and corrupts frames, with timeouts at any time
SRRejInit ==
    /\ SchedIdle
    /\ cfg = Conf("SR", FALSE, MaxLoss, FALSE, MaxWin, 16, 0)
    /\ ent = [e \in E |->
                [GBNNew(0) EXCEPT !.winSize = IF e = 2 THEN @ - 1 ELSE @]]
    /\ phy = [e \in E |-> <<>>]
    /\ link = [e \in E |-> <<>>]
    /\ timers = [e \in E |-> <<>>]
    /\ up = [e \in E |-> NewUpper]
    /\ err = ""
    /\ faults = NoFaults
    /\ PduIdle
SRRejSpec == SRRejInit /\ [][ArqNext]_vars

\* in this step entity e puts an SREJ with RN = rn into its transmit queue,
\* or hands it to the phy layer, and nothing else
SREJQueued(e, rn) ==
    \/ /\ ent'[e].transmitQueue
             = InsortRight(ent[e].transmitQueue, <<SREJ, rn>>)
       /\ phy'[e] = phy[e]
    \/ /\ ent'[e].transmitQueue = ent[e].transmitQueue
       /\ phy'[e] = Append(phy[e], MakeFrame(ent[e].SNmax, rn, 1, <<>>))

\* in this step entity e puts a retransmission of frame sn into its
\* transmit queue, or hands the frame to the phy layer, and nothing else
RetransmissionQueued(e, sn) ==
    \/ /\ ent'[e].transmitQueue
             = InsortRight(ent[e].transmitQueue, <<RETR, sn>>)
       /\ phy'[e] = phy[e]
    \/ /\ ent'[e].transmitQueue = ent[e].transmitQueue
       /\ phy'[e] = Append(phy[e], MakeFrame(sn, ent[e].VR, 0,
                                             ent[e].sendBuffer[sn]))

\* the data frame is neither in the reception window of entity e nor one of
\* the winSize + 1 numbers before it
TooFarAhead(e, f) ==
    /\ Len(f.data) # 0
    /\ (f.SN - ent[e].VR) % SN_MOD >= ent[e].winSize
    /\ (ent[e].VR - f.SN) % SN_MOD >= ent[e].winSize + 1

\* C26: Selective-Repeat.  A frame that arrives with a wrong FCS, and an
\* intact data frame that is too far ahead of VR, make the receiver queue
\* one SREJ that carries its VR, deliver nothing and leave VR as it was.  An
\* SREJ whose RN is a frame of the sender's window makes the sender
\* retransmit that frame once: one retransmission of frame RN is queued or
\* handed to the phy layer, no other frame is, and the window and the send
\* buffer stay as they were.
C26_SREJRetransmitsOne ==
    [][\A e \in E :
         /\ ReceiveCorrupt(e) =>
               /\ err' = ""
               /\ SREJQueued(e, ent[e].VR)
               /\ ent'[e].VR = ent[e].VR /\ up'[e] = up[e]
               /\ ent'[e].crcErrors = ent[e].crcErrors + 1
         /\ Receives(e) /\ TooFarAhead(e, Head(link[Peer(e)])) =>
               /\ err' = ""
               /\ SREJQueued(e, ent[e].VR)
               /\ ent'[e].VR = ent[e].VR /\ up'[e] = up[e]
               /\ ent'[e].receiveBuffer = ent[e].receiveBuffer
               /\ ent'[e].sequenceErrors = ent[e].sequenceErrors + 1
         /\ (/\ Receives(e)
             /\ Head(link[Peer(e)]).SREJ = 1
             /\ (Head(link[Peer(e)]).RN - ent[e].SNmin) % SN_MOD
                   < (ent[e].SNmax - ent[e].SNmin) % SN_MOD) =>
               /\ err' = ""
               /\ RetransmissionQueued(e, Head(link[Peer(e)]).RN)
               /\ ent'[e].sendBuffer = ent[e].sendBuffer
               /\ ent'[e].SNmin = ent[e].SNmin
               /\ ent'[e].SNmax = ent[e].SNmax
               /\ up'[e] = up[e]]_vars
\* the first frame was lost, the second one was too far ahead for the
\* receiver and was rejected, and the sender has retransmitted the first
\* frame and nothing else on the SREJ
C26_Witness ==
    /\ cfg.arq = "SR"
    /\ ent[2].sequenceErrors = 1 /\ ent[2].winSize < ent[1].winSize
    /\ faults.lost = 1 /\ faults.sns = {cfg.start} /\ faults.timeouts = 0
    /\ ent[1].packetRetransmissions = 1
    /\ \E i \in DOMAIN link[1] : link[1][i].SN = cfg.start

\* ---- Stop-and-Wait, continued
\* e retransmits: a timeout fires, or an intact frame arrives whose RN is
\* not the number that follows the one of the frame e waits for
SWRetransmits(e) ==
    \/ Timeout(e)
    \/ Receive(e) /\ Head(link[Peer(e)]).RN # ent[e].VS

TimerInit ==
    \/ CrcInit
    \/ /\ SchedIdle
       /\ ArqInit(Conf("SR", FALSE, MaxLoss, FALSE, MaxWin, 16, 0),
                  GBNNew(0))
TimerSpec == TimerInit /\ [][ArqNext]_vars

\* the number of pending _timeout events of e for sn
Pending(e, sn) == Cardinality({i \in DOMAIN timers[e] : timers[e][i] = sn})
\* the sequence numbers of the frames e holds unacknowledged
Unacknowledged(e) ==
    IF cfg.arq = "SW"
      THEN IF ent[e].sendBuffer = NoFrame THEN {} ELSE {0}
      ELSE DOMAIN ent[e].sendBuffer
\* e holds a timer handle for sn
HoldsTimer(e, sn) ==
    IF cfg.arq = "SW" THEN ent[e].timer
    ELSE sn \in ent[e].retransmissionTimer
\* the frame sn waits in the transmit queue of e to be sent or sent again
Waits(e, sn) ==
    /\ cfg.arq # "SW"
    /\ \/ InQueue(ent[e].transmitQueue, <<FIRSTTR, sn>>)
       \/ InQueue(ent[e].transmitQueue, <<RETR, sn>>)

PendingFor(e) == {timers[e][i] : i \in DOMAIN timers[e]}
\* the sequence numbers for which e holds a timer handle
Handles(e) ==
    IF cfg.arq = "SW" THEN IF ent[e].timer THEN {0} ELSE {}
    ELSE ent[e].retransmissionTimer

\* C31: a _timeout event is pending, and a timer handle is held, only for
\* a frame that is in the send window: a frame an acknowledgement has
\* released has no timer.
C31_NoTimerForReleasedFrame ==
    \A e \in E : PendingFor(e) \cup Handles(e) \subseteq Unacknowledged(e)
\* the same for the runs in which every bitstream has a payload
C31_NoTimerForReleasedFrameWithPayload ==
    cfg.empty = 0 => C31_NoTimerForReleasedFrame

\* C32: for no frame of an entity more than one _timeout event is pending.
C32_OnePendingTimeoutPerFrame ==
    \A e \in E : \A sn \in PendingFor(e) \cup Unacknowledged(e) :
       Pending(e, sn) <= 1
\* a frame of a Go-Back-N window has been transmitted again and its timer
\* set again, while another frame of the window waits
C32_Witness ==
    /\ cfg.arq = "GBN"
    /\ err = ""
    /\ ent[1].packetRetransmissions > 0
    /\ \E sn \in Unacknowledged(1) : HoldsTimer(1, sn) /\ Pending(1, sn) = 1
    /\ \E sn \in Unacknowledged(1) : Waits(1, sn)

\* ---- the entity and the phy layer
\* C33: the phy layer of an entity holds at most one frame of the entity
\* whose transmission it has not reported as completed: the entity calls
\* phy.send only after the sendStatus for the frame before.
C33_OneFrameInTransmission ==
    \A e \in E : Len(phy[e]) <= 1
\* the same for Go-Back-N and Selective-Repeat
C33_OneFrameInTransmissionWithQueue ==
    cfg.arq # "SW" => C33_OneFrameInTransmission

\* ---- the entities after a terminated run
\* C34: after a run has been terminated, an entity holds a timer handle
\* only for a _timeout event that is pending, and no CANCEL of an entity
\* names an event that is not pending (Scheduler.cancel raises
\* RuntimeError for it).
C34_NoHandleForDeletedEvent ==
    faults.terminated > 0 =>
       /\ \A e \in E : Handles(e) \subseteq PendingFor(e)
       /\ err # "RuntimeError"
\* the second half alone: no CANCEL of an event that is not pending
C34_NoCancelOfDeletedEvent ==
    faults.terminated > 0 => err # "RuntimeError"

\* ---- completion and reception
\* the payloads host e has received in intact frames: those passed to its
\* upper layer and those it holds in its receive buffer
ReceivedBy(e) ==
    {up[e].delivered[i] : i \in DOMAIN up[e].delivered}
       \cup IF cfg.arq = "SW" THEN {}
            ELSE {ent[e].receiveBuffer[sn] : sn \in DOMAIN ent[e].receiveBuffer}

\* C35: the upper layer of a host is told of the completion of a payload
\* only if the peer has received that payload.
C35_CompletedOnlyIfReceived ==
    \A e \in E : \A i \in DOMAIN up[e].completed :
       up[e].completed[i] \in ReceivedBy(Peer(e))
\* the same for the runs with traffic in one direction
C35_CompletedOnlyIfReceivedOneWay ==
    cfg.senders = {1} => C35_CompletedOnlyIfReceived

\* C36: for every frame an entity holds unacknowledged a _timeout event is
\* pending, or the frame waits in the transmit queue to be sent or sent
\* again.
C36_HeldFrameHasTimerOrWaits ==
    \A e \in E : \A sn \in Unacknowledged(e) :
       Pending(e, sn) >= 1 \/ Waits(e, sn)
\* the same for the runs in which no call has ended with an exception
C36_HeldFrameHasTimerOrWaitsUnlessRaised ==
    err = "" => C36_HeldFrameHasTimerOrWaits

\* ---- the data entries of the transmit queue

DataEntries(e) ==
    {ent[e].transmitQueue[i][2] : i \in
        {j \in DOMAIN ent[e].transmitQueue :
            ent[e].transmitQueue[j][1] \in {FIRSTTR, RETR}}}

\* C37: in Go-Back-N and Selective-Repeat every data entry (first
\* transmission or retransmission) of the transmit queue names a sequence
\* number that is in the send buffer, and taking an entry from the queue
\* never fails with a KeyError on a missing frame
C37_QueuedDataIsInSendBuffer ==
    cfg.arq # "SW" =>
        /\ err # "KeyError"
        /\ \A e \in E : DataEntries(e) \subseteq Unacknowledged(e)

\* ---- acknowledgements and frames waiting for their first transmission

\* C38: in Go-Back-N and Selective-Repeat an acknowledgement never releases
\* a frame that still waits for its first transmission: the assertion
\* (FIRSTTR, SNmin) not in transmitQueue of _checkAck never fails
C38_AckNeverPassesUnsentFrame ==
    [][\A e \in E :
          (cfg.arq # "SW" /\ err = "" /\ (Receive(e) \/ ReceiveCorrupt(e)))
              => err' # "AssertionError"]_vars

\* ---- frames with an empty payload

\* the frame that arrives at e next has an empty payload
EmptyArrives(e) ==
    /\ link[Peer(e)] # <<>>
    /\ Len(Head(link[Peer(e)]).data) = 0
\* the acknowledgements e has queued or handed to the phy layer; they can
\* be told from the data frames of e when no payload of e is empty
AcksOf(e) ==
    IF e \in cfg.senders /\ cfg.empty \in 1..cfg.quota[e] THEN 0
    ELSE Cardinality({i \in DOMAIN phy[e] : Len(phy[e][i].data) = 0})
         + (IF cfg.arq = "SW" THEN 0
            ELSE Cardinality({i \in DOMAIN ent[e].transmitQueue :
                     ent[e].transmitQueue[i][1] \notin {FIRSTTR, RETR}}))
\* the frame whose timer fires next at e has an empty payload
EmptyTimesOut(e) ==
    /\ timers[e] # <<>>
    /\ IF cfg.arq = "SW"
         THEN ent[e].sendBuffer # NoFrame /\ Len(ent[e].sendBuffer.data) = 0
         ELSE Len(PayloadOf(Head(timers[e]))) = 0
\* e transmits frame sn again, or has queued it for that
Resends(e, sn) ==
    /\ err' = ""
    /\ IF cfg.arq = "SW"
         THEN Len(phy'[e]) = Len(phy[e]) + 1
         ELSE \/ InQueue(ent'[e].transmitQueue, <<RETR, sn>>)
              \/ /\ Len(phy'[e]) = Len(phy[e]) + 1
                 /\ phy'[e][Len(phy'[e])].SN = sn
                 /\ Len(phy'[e][Len(phy'[e])].data) = 0

\* C39: an intact frame with an empty payload is a pure acknowledgement
\* for its receiver: nothing is delivered, VR stays, no acknowledgement is
\* sent; so an empty payload is never delivered to the peer's upper layer
\* and never reported complete, and it is retransmitted on every timeout
C39_EmptyPayloadIsPureAck ==
    [][\A e \in E :
          /\ (err = "" /\ EmptyArrives(e) /\ Receive(e)) =>
                /\ up'[e].delivered = up[e].delivered
                /\ ent'[e].VR = ent[e].VR
                /\ AcksOf(e)' = AcksOf(e)
          /\ \A i \in DOMAIN up'[e].delivered : Len(up'[e].delivered[i]) # 0
          /\ \A i \in DOMAIN up'[e].completed : Len(up'[e].completed[i]) # 0
          /\ (err = "" /\ EmptyTimesOut(e) /\ Timeout(e)) =>
                Resends(e, Head(timers[e]))]_vars

\* ---- bit-fields that do not fit into 8 octets

\* a BitField of the layout, from its start offset within the first octet
\* it touches to its end, takes more than the 64 bits of 8 octets
BitFieldTooLong(fmt) ==
    \E i \in DOMAIN fmt :
       /\ fmt[i].type = "BitField"
       /\ fmt[i].length # None
       /\ (StartBit(fmt, i) % 8) + fmt[i].length > 64

\* C40: formatFactory raises PDUFormatError, and returns no class, for
\* every layout with a BitField too long to fit into 8 octet-aligned bytes
C40_LongBitFieldIsRefused ==
    (assigned.n = 1 /\ BitFieldTooLong(format))
       => raised = "PDUFormatError" /\ pdu1 = <<>>
\* formatFactory returns a class for every layout that is sound but for a
\* BitField that is too long
C40_LongBitFieldIsAccepted ==
    (/\ assigned.n = 1
     /\ BitFieldTooLong(format)
     /\ ~(\/ MoreThanOneVariable(format)
          \/ VariableNotByteField(format)
          \/ UnknownType(format)
          \/ NotOnOctetBoundary(format)
          \/ IntTooWide(format)
          \/ NotWholeOctets(format)
          \/ \E i \in DOMAIN format :
                \/ format[i].type = "MACAddr" /\ format[i].length # 48
                \/ format[i].type = "IPv4Addr" /\ format[i].length # 32
                \/ format[i].type = "Int" /\ format[i].length % 8 # 0))
       => raised = "" /\ pdu1 # <<>>
====
